---------------------------- MODULE Spec2Model ----------------------------
(***************************************************************************)
(* A model of cursor-lint / cursor-doctor: the frontmatter parser, the     *)
(* per-file lint pass, the project scan, the cross-file analysis, the      *)
(* health score, the rule loader and the automatic fix.                    *)
(*                                                                         *)
(* Texts are TLA+ strings, read one UTF-16 code unit at a time with        *)
(* SubSeq, so that String.prototype.indexOf / slice / split / trim /       *)
(* toLowerCase are modelled by what they do.  Two code units outside       *)
(* ASCII are written with ASCII stand-ins, because a module is ASCII:      *)
(*    "@"  stands for U+0130 (capital I with dot above),                   *)
(*    "~"  stands for U+0307 (combining dot above).                        *)
(* toLowerCase maps U+0130 to the two code units "i" U+0307.  The dash     *)
(* U+2014 of the messages is written "-".                                  *)
(***************************************************************************)
EXTENDS Integers, Sequences, FiniteSets, TLC

VARIABLES
    cursorrules,   \* <dir>/.cursorrules : a File, or NoFile
    rulesDir,      \* <dir>/.cursor/rules : [kind, entries]
    hasSkills,     \* some skills directory holds a <sub>/SKILL.md
    coverageGaps,  \* the file types of the project without a rule, as showStats lists them
    rules,         \* the rule list handed to the cross-file analysis
    op,            \* the last operation called ("edit" after a change of the project)
    arg,           \* its argument
    ret,           \* what it returned: Return(value) or Throw
    last,          \* the first doctor report since the project last changed
    license        \* the two license files, and whether an activation has succeeded

vars == <<cursorrules, rulesDir, hasSkills, coverageGaps, rules, op, arg, ret, last,
          license>>

project == <<cursorrules, rulesDir, hasSkills, coverageGaps>>

-----------------------------------------------------------------------------
(* Strings *)

Ch(s, i) == SubSeq(s, i, i)

Min(S) == CHOOSE x \in S : \A y \in S : x <= y

\* String.prototype.startsWith / endsWith / includes
StartsWith(s, p) == Len(p) <= Len(s) /\ SubSeq(s, 1, Len(p)) = p

EndsWith(s, p) == Len(p) <= Len(s) /\ SubSeq(s, Len(s) - Len(p) + 1, Len(s)) = p

\* The 0-based positions at which p occurs in s.
Occurrences(s, p) ==
    {i \in 0..(Len(s) - Len(p)) : SubSeq(s, i + 1, i + Len(p)) = p}

\* String.prototype.indexOf: the 0-based index of the first occurrence, or -1.
IndexOf(s, p) ==
    LET hits == Occurrences(s, p)
    IN  IF hits = {} THEN -1 ELSE Min(hits)

Includes(s, p) == Occurrences(s, p) # {}

\* String.prototype.slice(a, b) for 0 <= a and 0 <= b (an end past the length
\* is clamped to it), and slice(a).
Slice(s, a, b) == SubSeq(s, a + 1, IF b > Len(s) THEN Len(s) ELSE b)

SliceFrom(s, a) == SubSeq(s, a + 1, Len(s))

\* The white space of \s and of trim() that the inputs can hold
\* (a line never holds "\n": it comes out of a split on "\n").
WhiteSpace == {" ", "\t", "\r", "\n"}

RECURSIVE TrimStart(_)
TrimStart(s) ==
    IF Len(s) > 0 /\ Ch(s, 1) \in WhiteSpace THEN TrimStart(Tail(s)) ELSE s

RECURSIVE TrimEnd(_)
TrimEnd(s) ==
    IF Len(s) > 0 /\ Ch(s, Len(s)) \in WhiteSpace
    THEN TrimEnd(SubSeq(s, 1, Len(s) - 1))
    ELSE s

\* String.prototype.trim
Trim(s) == TrimEnd(TrimStart(s))

\* String.prototype.split('\n')
RECURSIVE Split(_)
Split(s) ==
    LET i == IndexOf(s, "\n")
    IN  IF i = -1 THEN <<s>>
        ELSE <<Slice(s, 0, i)>> \o Split(SliceFrom(s, i + 1))

\* String.prototype.split(sep), for a separator that is not empty
RECURSIVE SplitBy(_, _)
SplitBy(s, sep) ==
    LET i == IndexOf(s, sep)
    IN  IF i = -1 THEN <<s>>
        ELSE <<Slice(s, 0, i)>> \o SplitBy(SliceFrom(s, i + Len(sep)), sep)

UpperCase == "ABCDEFGHIJKLMNOPQRSTUVWXYZ"

LowerCase == "abcdefghijklmnopqrstuvwxyz"

UpperToLower ==
    [c \in {Ch(UpperCase, i) : i \in 1..26} |->
        Ch(LowerCase, CHOOSE i \in 1..26 : Ch(UpperCase, i) = c)]

\* toLowerCase of one code unit.  U+0130 becomes two code units.
LowerChar(c) ==
    IF c \in DOMAIN UpperToLower THEN UpperToLower[c]
    ELSE IF c = "@" THEN "i~"
    ELSE c

\* String.prototype.toLowerCase
RECURSIVE ToLowerCase(_)
ToLowerCase(s) ==
    IF Len(s) = 0 THEN ""
    ELSE IF Len(s) = 1 THEN LowerChar(s)
    ELSE LET h == Len(s) \div 2
         IN  ToLowerCase(SubSeq(s, 1, h)) \o ToLowerCase(SubSeq(s, h + 1, Len(s)))

\* Lower case of the ASCII letters alone, one code unit for one code unit: what
\* the i flag of a regular expression of ASCII literals compares.
RECURSIVE FoldCase(_)
FoldCase(s) ==
    IF Len(s) = 0 THEN ""
    ELSE IF Len(s) = 1
         THEN (IF s \in DOMAIN UpperToLower THEN UpperToLower[s] ELSE s)
    ELSE LET h == Len(s) \div 2
         IN  FoldCase(SubSeq(s, 1, h)) \o FoldCase(SubSeq(s, h + 1, Len(s)))

\* Array.prototype.join
RECURSIVE JoinWith(_, _)
JoinWith(seq, sep) ==
    IF seq = <<>> THEN ""
    ELSE IF Len(seq) = 1 THEN seq[1]
    ELSE seq[1] \o sep \o JoinWith(Tail(seq), sep)

-----------------------------------------------------------------------------
(* The project on disk *)

NoFile == [exists |-> FALSE, readable |-> FALSE, text |-> ""]

\* A file of the project: readFileSync throws on one that cannot be read.
File(text) == [exists |-> TRUE, readable |-> TRUE, text |-> text]

Unreadable == [exists |-> TRUE, readable |-> FALSE, text |-> ""]

\* <dir>/.cursor/rules: absent, a plain file, or a directory of entries.
NoDir == [kind |-> "absent", entries |-> <<>>]

PlainFile == [kind |-> "file", entries |-> <<>>]

Dir(entries) == [kind |-> "dir", entries |-> entries]

\* unlinkSync(path) on the entries of a directory.
Without(entries, name) == [n \in DOMAIN entries \ {name} |-> entries[n]]

Reverse(seq) == [k \in 1..Len(seq) |-> seq[Len(seq) + 1 - k]]

-----------------------------------------------------------------------------
(* src/index.js : the frontmatter parser *)

\* A JavaScript value held by the frontmatter mapping: a boolean or a string.
Bool(b) == [type |-> "boolean", b |-> b, s |-> ""]

Str(s) == [type |-> "string", b |-> FALSE, s |-> s]

Undefined == [type |-> "undefined", b |-> FALSE, s |-> ""]

\* ToBoolean of such a value.
Truthy(v) ==
    CASE v.type = "boolean" -> v.b
      [] v.type = "string"  -> v.s # ""
      [] OTHER              -> FALSE

\* data[key], undefined when the key is absent.
Get(data, key) == IF key \in DOMAIN data THEN data[key] ELSE Undefined

\* The null of the data field, and a mapping held by it.
NullData == [null |-> TRUE, map |-> <<>>]

Data(map) == [null |-> FALSE, map |-> map]

\* The null of the error field.
NullError == [null |-> TRUE, message |-> ""]

Error(message) == [null |-> FALSE, message |-> message]

\* content.match(/^---\n([\s\S]*?)\n---/): the capture group, lazily the
\* shortest; matched is FALSE when there is no match.
MatchFrontmatter(content) ==
    LET closes == {i \in Occurrences(content, "\n---") : i >= 4}
    IN  IF StartsWith(content, "---\n") /\ closes # {}
        THEN [matched |-> TRUE, block |-> Slice(content, 4, Min(closes)),
              end |-> Min(closes) + 4]
        ELSE [matched |-> FALSE, block |-> "", end |-> 0]

\* lines.indexOf(line): the 0-based index of the first equal line.
FirstIndexOf(lines, line) == Min({i \in 1..Len(lines) : lines[i] = line}) - 1

\* line.match(/^\s+\S/) && !line.match(/^\s+-/)
IndentedNonList(line) ==
    LET rest == TrimStart(line)
    IN  /\ Len(rest) < Len(line) /\ Len(rest) > 0
        /\ Ch(rest, 1) # "-"

\* The check of lines 44-50: the line is indented, is no list item, and the
\* line before its first occurrence is non-empty and does not end with ':'.
BadIndentation(lines, line) ==
    /\ IndentedNonList(line)
    /\ LET k == FirstIndexOf(lines, line)
       IN  /\ k >= 1
           /\ lines[k] # ""
           /\ ~EndsWith(lines[k], ":")

\* Lines 51-54: the value stored for a raw value.
Coerce(rawVal) ==
    IF rawVal = "true" THEN Bool(TRUE)
    ELSE IF rawVal = "false" THEN Bool(FALSE)
    ELSE IF StartsWith(rawVal, "\"") /\ EndsWith(rawVal, "\"")
         THEN Str(SubSeq(rawVal, 2, Len(rawVal) - 1))
    ELSE Str(rawVal)

\* The loop of lines 38-55 from line i on, with the mapping built so far.
RECURSIVE ParseLines(_, _, _)
ParseLines(lines, i, data) ==
    IF i > Len(lines) THEN [found |-> TRUE, data |-> Data(data), error |-> NullError]
    ELSE LET line     == lines[i]
             colonIdx == IndexOf(line, ":")
             key      == Trim(Slice(line, 0, colonIdx))
             rawVal   == Trim(SliceFrom(line, colonIdx + 1))
         IN  IF colonIdx = -1 THEN ParseLines(lines, i + 1, data)
             ELSE IF BadIndentation(lines, line)
                  THEN [found |-> TRUE, data |-> NullData,
                        error |-> Error("Invalid YAML indentation")]
             \* data['__proto__'] = value goes to the setter of Object.prototype,
             \* which ignores a boolean or a string: no key is added.
             ELSE IF key = "__proto__" THEN ParseLines(lines, i + 1, data)
             ELSE ParseLines(lines, i + 1,
                     [k \in DOMAIN data \cup {key} |->
                         IF k = key THEN Coerce(rawVal) ELSE data[k]])

\* parseFrontmatter with an empty mapping, not null, when no block is found.
parseFrontmatter_EmptyData(content) ==
    LET match == MatchFrontmatter(content)
    IN  IF ~match.matched
        THEN [found |-> FALSE, data |-> Data(<<>>), error |-> NullError]
        ELSE ParseLines(Split(match.block), 1, <<>>)

parseFrontmatter(content) ==
    LET match == MatchFrontmatter(content)
    IN  IF ~match.matched
        THEN [found |-> FALSE, data |-> NullData, error |-> NullError]
        ELSE ParseLines(Split(match.block), 1, <<>>)

-----------------------------------------------------------------------------
(* src/index.js : the per-file lint *)

VAGUE_PATTERNS == <<
    "write clean code",
    "follow best practices",
    "be consistent",
    "write maintainable code",
    "handle errors properly",
    "use proper naming",
    "keep it simple",
    "write readable code",
    "follow conventions",
    "use good patterns",
    "write efficient code",
    "be careful",
    "think before coding",
    "write good tests",
    "follow solid principles",
    "use common sense",
    "write quality code",
    "follow the style guide",
    "be thorough",
    "write robust code",
    "use good naming",
    "be helpful",
    "use appropriate patterns",
    "be concise" >>

\* An issue without a line property holds NoLine, one without a hint holds "".
NoLine == 0

Issue(severity, message, hint, line) ==
    [severity |-> severity, message |-> message, hint |-> hint, line |-> line]

VagueMessage(pattern) == "Vague rule detected: \"" \o pattern \o "\""

\* The loop of lines 86-92 over the patterns from the i-th on.
RECURSIVE VagueIssues(_, _, _, _)
VagueIssues(patterns, content, contentLower, i) ==
    IF i > Len(patterns) THEN <<>>
    ELSE LET pattern == patterns[i]
             idx     == IndexOf(contentLower, pattern)
             lineNum == Len(Split(Slice(content, 0, idx)))
         IN  (IF idx # -1
              THEN <<Issue("warning", VagueMessage(pattern), "", lineNum)>>
              ELSE <<>>)
             \o VagueIssues(patterns, content, contentLower, i + 1)

\* CommaString looking for the wrong separator.
CommaString_Semicolon(v) == Truthy(v) /\ v.type = "string" /\ Includes(v.s, ";")

\* typeof v === 'string' && v.includes(',') for a truthy v
CommaString(v) == Truthy(v) /\ v.type = "string" /\ Includes(v.s, ",")

\* !fm.data.alwaysApply
NotAlwaysApply_OnlyFalse(data) == Get(data, "alwaysApply") = Bool(FALSE)

NotAlwaysApply(data) == ~Truthy(Get(data, "alwaysApply"))

\* Lines 68-82: the issues of the frontmatter.
FrontmatterIssues(fm) ==
    IF ~fm.found
    THEN <<Issue("error", "Missing YAML frontmatter",
                 "Add --- block with description and alwaysApply: true", NoLine)>>
    ELSE IF ~fm.error.null
    THEN <<Issue("error", "YAML frontmatter error: " \o fm.error.message,
                 "Fix frontmatter indentation/syntax", NoLine)>>
    ELSE (IF NotAlwaysApply(fm.data.map)
          THEN <<Issue("error", "Missing alwaysApply: true",
                       "Add alwaysApply: true to frontmatter for agent mode", NoLine)>>
          ELSE <<>>)
      \o (IF ~Truthy(Get(fm.data.map, "description"))
          THEN <<Issue("warning", "Missing description in frontmatter",
                       "Add a description so Cursor knows when to apply this rule", NoLine)>>
          ELSE <<>>)
      \o (IF CommaString(Get(fm.data.map, "globs"))
          THEN <<Issue("error", "Globs should be YAML array, not comma-separated string",
                       "Use globs:\\n  - \"*.ts\"\\n  - \"*.tsx\"", NoLine)>>
          ELSE <<>>)

\* Lines 64-92 of lintMdcFile: the issues of a text that was read.
MdcIssues(content) ==
    FrontmatterIssues(parseFrontmatter(content))
    \o VagueIssues(VAGUE_PATTERNS, content, ToLowerCase(content), 1)

\* A call that returned v, and a call that threw.
Return(v) == [threw |-> FALSE, value |-> v]

Throw == [threw |-> TRUE, value |-> <<>>]

lintMdcFile(filePath, file) ==
    IF ~file.readable THEN Throw
    ELSE Return([file |-> filePath, issues |-> MdcIssues(file.text)])

\* Lines 99-115 of lintCursorrules.
CursorrulesIssues(content) ==
    <<Issue("warning", ".cursorrules may be ignored in agent mode",
            "Use .cursor/rules/*.mdc with alwaysApply: true for agent mode compatibility",
            NoLine)>>
    \o VagueIssues(VAGUE_PATTERNS, content, ToLowerCase(content), 1)

lintCursorrules(filePath, file) ==
    IF ~file.readable THEN Throw
    ELSE Return([file |-> filePath, issues |-> CursorrulesIssues(file.text)])

\* The texts of the project's rule files, linted once each.
RECURSIVE Repeat(_, _)
Repeat(s, n) ==
    IF n = 0 THEN ""
    ELSE IF n % 2 = 1 THEN s \o Repeat(s, n - 1)
    ELSE LET h == Repeat(s, n \div 2) IN h \o h

GoodHeader == "---\ndescription: Test\nalwaysApply: true\n---\n"

\* No issue; one error and one warning; two errors and one warning; no
\* issue and 2013 estimated tokens.
RuleTexts == {
    GoodHeader \o "# Rule\nUse const.\n",
    "---\ndescription: Test\n---\nFollow best practices.\n",
    "---\nglobs: \"*.ts, *.tsx\"\n---\n# Rule\n",
    GoodHeader \o Repeat("Use const.\n", 728) }

CursorrulesTexts == { "Use tabs.\n" }

MdcIssuesOf == [content \in RuleTexts |-> MdcIssues(content)]

CursorrulesIssuesOf == [content \in CursorrulesTexts |-> CursorrulesIssues(content)]

ProjectDir == "/project"

\* path.join(dir, name)
PathJoin(dir, name) == dir \o "/" \o name

\* Line 131: entry.endsWith('.mdc'), with every entry taken as a rule file.
IsMdc_Any(entry) == TRUE

\* Line 131: entry.endsWith('.mdc')
IsMdc(entry) == EndsWith(entry, ".mdc")

\* Lines 130-134: the rule files of the listing, linted in its order; the
\* first file that cannot be read throws.
RECURSIVE LintEntries(_, _, _)
LintEntries(dirPath, entries, listing) ==
    IF listing = <<>> THEN Return(<<>>)
    ELSE IF ~IsMdc(Head(listing)) THEN LintEntries(dirPath, entries, Tail(listing))
    ELSE LET file == entries[Head(listing)]
             rest == LintEntries(dirPath, entries, Tail(listing))
         IN  IF ~file.readable \/ rest.threw THEN Throw
             ELSE Return(<<[file |-> PathJoin(dirPath, Head(listing)),
                            issues |-> IF file.text \in DOMAIN MdcIssuesOf
                                       THEN MdcIssuesOf[file.text]
                                       ELSE MdcIssues(file.text)]>>
                         \o rest.value)

\* Lines 137-142: the result of a project without a rule file.
NoRulesResult(dir) ==
    [file |-> dir,
     issues |-> <<Issue("warning", "No Cursor rules found in this directory", "", NoLine)>>]

\* lintProject(dir) on the project <<cr, rd>>, readdirSync returning listing.
lintProject(dir, cr, rd, listing) ==
    LET first == IF ~cr.exists THEN Return(<<>>)
                 ELSE IF ~cr.readable THEN Throw
                 ELSE Return(<<[file |-> PathJoin(dir, ".cursorrules"),
                                issues |-> IF cr.text \in DOMAIN CursorrulesIssuesOf
                                           THEN CursorrulesIssuesOf[cr.text]
                                           ELSE CursorrulesIssues(cr.text)]>>)
        mdc   == IF rd.kind = "dir"
                 THEN LintEntries(PathJoin(dir, ".cursor/rules"), rd.entries, listing)
                 ELSE Return(<<>>)
    IN  IF first.threw \/ mdc.threw THEN Throw
        ELSE IF first.value \o mdc.value = <<>> THEN Return(<<NoRulesResult(dir)>>)
        ELSE Return(first.value \o mdc.value)

-----------------------------------------------------------------------------
(* ./stats, as section 4.5 and 4.6 of the specification describe it *)

\* estimate(text) = ceil(character_length / 4)
estimate(text) == (Len(text) + 3) \div 4

RECURSIVE SumTokens(_, _)
SumTokens(entries, names) ==
    IF names = {} THEN 0
    ELSE LET n == CHOOSE x \in names : TRUE
         IN  (IF IsMdc(n) THEN estimate(entries[n].text) ELSE 0)
             + SumTokens(entries, names \ {n})

\* showStats(dir): the estimated tokens of all rule documents, and the
\* precomputed list of coverage gaps.
showStats(cr, rd, gaps) ==
    [totalTokens |-> (IF cr.exists THEN estimate(cr.text) ELSE 0)
                     + (IF rd.kind = "dir"
                        THEN SumTokens(rd.entries, DOMAIN rd.entries) ELSE 0),
     coverageGaps |-> gaps]

-----------------------------------------------------------------------------
(* src/doctor.js : the health score *)

Check(name, status, detail) == [name |-> name, status |-> status, detail |-> detail]

\* report.maxScore += n, once per check, whatever the check finds.
RulesExistMax == 20

NoLegacyMax == 10

LintChecksMax == 30

TokenBudgetMax == 15

CoverageMax == 15

AgentSkillsMax == 10

\* What one check adds to the report.
Part(score, check) == [score |-> score, check |-> check]

\* Lines 14-28
RulesExist(hasMdc, hasCursorrules) ==
    IF hasMdc
    THEN Part(20, Check("Rules exist", "pass", ".cursor/rules/ found with .mdc files"))
    ELSE IF hasCursorrules
    THEN Part(5, Check("Rules exist", "warn",
              "Only .cursorrules found - run --migrate to convert to .mdc format"))
    ELSE Part(0, Check("Rules exist", "fail",
              "No rules found. Run --init or --generate to create rules."))

\* NoLegacy giving the partial credit to a legacy file on its own too.
NoLegacy_PartialAlone(hasMdc, hasCursorrules) ==
    IF hasCursorrules
    THEN Part(5, Check("No legacy .cursorrules", "warn",
              ".cursorrules exists alongside .mdc rules - may cause conflicts. Consider removing it."))
    ELSE Part(10, Check("No legacy .cursorrules", "pass",
              "Good - using modern .mdc format only"))

\* Lines 30-40
NoLegacy(hasMdc, hasCursorrules) ==
    IF hasCursorrules /\ hasMdc
    THEN Part(5, Check("No legacy .cursorrules", "warn",
              ".cursorrules exists alongside .mdc rules - may cause conflicts. Consider removing it."))
    ELSE IF ~hasCursorrules
    THEN Part(10, Check("No legacy .cursorrules", "pass",
              "Good - using modern .mdc format only"))
    ELSE Part(0, Check("No legacy .cursorrules", "warn",
              "Using legacy .cursorrules - run --migrate to convert"))

\* CountSeverity looking at the first result only.
CountSeverity_First(results, severity) ==
    IF results = <<>> THEN 0
    ELSE Cardinality({k \in DOMAIN Head(results).issues :
                         Head(results).issues[k].severity = severity})

\* Lines 45-52: the issues of that severity over all results.
RECURSIVE CountSeverity(_, _)
CountSeverity(results, severity) ==
    IF results = <<>> THEN 0
    ELSE Cardinality({k \in DOMAIN Head(results).issues :
                         Head(results).issues[k].severity = severity})
         + CountSeverity(Tail(results), severity)

\* `${n} ${word}${n !== 1 ? 's' : ''}`
Plural(n, word) == ToString(n) \o " " \o word \o (IF n # 1 THEN "s" ELSE "")

Max(a, b) == IF a >= b THEN a ELSE b

\* LintChecks scoring errors as it scores warnings.
LintChecks_ErrorsAsWarnings(errors, warnings) ==
    IF errors = 0 /\ warnings = 0
    THEN Part(30, Check("Lint checks", "pass", "All rules pass lint checks"))
    ELSE Part(20, Check("Lint checks", "warn",
              Plural(warnings, "warning") \o " found. Run cursor-lint to see details."))

\* LintChecks without Math.max.
LintChecks_Unclamped(errors, warnings) ==
    IF errors = 0 /\ warnings = 0
    THEN Part(30, Check("Lint checks", "pass", "All rules pass lint checks"))
    ELSE IF errors = 0
    THEN Part(20, Check("Lint checks", "warn",
              Plural(warnings, "warning") \o " found. Run cursor-lint to see details."))
    ELSE Part(10 - errors * 2, Check("Lint checks", "fail",
              Plural(errors, "error") \o ", " \o Plural(warnings, "warning")
              \o ". Run cursor-lint to fix."))

\* Lines 54-63
LintChecks(errors, warnings) ==
    IF errors = 0 /\ warnings = 0
    THEN Part(30, Check("Lint checks", "pass", "All rules pass lint checks"))
    ELSE IF errors = 0
    THEN Part(20, Check("Lint checks", "warn",
              Plural(warnings, "warning") \o " found. Run cursor-lint to see details."))
    ELSE Part(Max(0, 10 - errors * 2), Check("Lint checks", "fail",
              Plural(errors, "error") \o ", " \o Plural(warnings, "warning")
              \o ". Run cursor-lint to fix."))

\* Lines 65-79
TokenBudget(totalTokens) ==
    IF totalTokens = 0
    THEN Part(0, Check("Token budget", "info", "No rules to measure"))
    ELSE IF totalTokens < 2000
    THEN Part(15, Check("Token budget", "pass",
              "~" \o ToString(totalTokens) \o " tokens - well within budget"))
    ELSE IF totalTokens < 5000
    THEN Part(10, Check("Token budget", "warn",
              "~" \o ToString(totalTokens)
              \o " tokens - getting heavy. Consider trimming or splitting rules."))
    ELSE Part(5, Check("Token budget", "fail",
              "~" \o ToString(totalTokens)
              \o " tokens - very heavy. This eats into your context window every request."))

\* Lines 81-94
Coverage(gaps) ==
    IF Len(gaps) = 0
    THEN Part(15, Check("Coverage", "pass", "Rules cover your project file types"))
    ELSE IF Len(gaps) <= 2
    THEN Part(10, Check("Coverage", "warn",
              "Missing rules for: " \o JoinWith(gaps, ", ") \o ". Run --generate to add them."))
    ELSE Part(5, Check("Coverage", "fail",
              "Missing rules for: " \o JoinWith(gaps, ", ") \o ". Run --generate to add them."))

\* Lines 96-119
AgentSkills(skills) ==
    IF skills
    THEN Part(10, Check("Agent skills", "pass", "Skills directory found"))
    ELSE Part(5, Check("Agent skills", "info",
              "No agent skills found. Skills are optional but can improve agent behavior for complex workflows."))

\* Grade with the thresholds exclusive.
Grade_Exclusive(score, maxScore) ==
    IF score * 100 > 90 * maxScore THEN "A"
    ELSE IF score * 100 > 75 * maxScore THEN "B"
    ELSE IF score * 100 > 60 * maxScore THEN "C"
    ELSE IF score * 100 > 40 * maxScore THEN "D"
    ELSE "F"

\* Lines 122-127: pct = (score / maxScore) * 100 against the thresholds.  The
\* double (score / 100) * 100 equals score for every integer score of
\* 0..100, so the comparison is made on integers.
Grade(score, maxScore) ==
    IF score * 100 >= 90 * maxScore THEN "A"
    ELSE IF score * 100 >= 75 * maxScore THEN "B"
    ELSE IF score * 100 >= 60 * maxScore THEN "C"
    ELSE IF score * 100 >= 40 * maxScore THEN "D"
    ELSE "F"

\* Line 129: Math.round(pct), for a pct that is not negative.
Percentage(score, maxScore) == (200 * score + maxScore) \div (2 * maxScore)

\* doctor(dir) on the project, the readdirSync of lintProject returning
\* listing.  Line 17 throws on a rules path that is not a directory.
doctor(dir, cr, rd, skills, gaps, listing) ==
    LET hasMdc         == rd.kind = "dir" /\ \E n \in DOMAIN rd.entries : IsMdc(n)
        hasCursorrules == cr.exists
        lintResults    == lintProject(dir, cr, rd, listing)
        stats          == showStats(cr, rd, gaps)
        parts == <<RulesExist(hasMdc, hasCursorrules),
                   NoLegacy(hasMdc, hasCursorrules),
                   LintChecks(CountSeverity(lintResults.value, "error"),
                              CountSeverity(lintResults.value, "warning")),
                   TokenBudget(stats.totalTokens),
                   Coverage(stats.coverageGaps),
                   AgentSkills(skills)>>
        score    == parts[1].score + parts[2].score + parts[3].score
                    + parts[4].score + parts[5].score + parts[6].score
        maxScore == RulesExistMax + NoLegacyMax + LintChecksMax
                    + TokenBudgetMax + CoverageMax + AgentSkillsMax
    IN  IF rd.kind = "file" \/ lintResults.threw THEN Throw
        ELSE Return([checks     |-> [k \in 1..6 |-> parts[k].check],
                     score      |-> score,
                     maxScore   |-> maxScore,
                     grade      |-> Grade(score, maxScore),
                     percentage |-> Percentage(score, maxScore)])

-----------------------------------------------------------------------------
(* The earlier lint pass (lint / lintFile / findRuleFiles) *)

\* Its dictionary: the first twenty entries of the one above, in the same order.
LINTFILE_VAGUE_PATTERNS == SubSeq(VAGUE_PATTERNS, 1, 20)

MAX_LINES_WARNING == 150

MAX_LINES_ERROR == 300

\* The loop of parseMdcFrontmatter: no unquoting, no indentation check.
RECURSIVE MdcLines(_, _, _)
MdcLines(lines, i, frontmatter) ==
    IF i > Len(lines) THEN frontmatter
    ELSE LET line     == lines[i]
             colonIdx == IndexOf(line, ":")
             key      == Trim(Slice(line, 0, colonIdx))
             value    == Trim(SliceFrom(line, colonIdx + 1))
         IN  IF colonIdx = -1 THEN MdcLines(lines, i + 1, frontmatter)
             ELSE MdcLines(lines, i + 1,
                     [k \in DOMAIN frontmatter \cup {key} |->
                         IF k = key
                         THEN (IF value = "true" THEN Bool(TRUE)
                               ELSE IF value = "false" THEN Bool(FALSE)
                               ELSE Str(value))
                         ELSE frontmatter[k]])

parseMdcFrontmatter(content) ==
    LET match == MatchFrontmatter(content)
    IN  IF ~match.matched THEN NullData
        ELSE Data(MdcLines(Split(match.block), 1, <<>>))

\* String.prototype.lastIndexOf
LastIndexOf(s, p) ==
    LET hits == Occurrences(s, p)
    IN  IF hits = {} THEN -1 ELSE CHOOSE x \in hits : \A y \in hits : y <= x

\* path.basename and path.extname (POSIX)
Basename(filePath) == SliceFrom(filePath, LastIndexOf(filePath, "/") + 1)

Extname(filePath) ==
    LET base == Basename(filePath)
        dot  == LastIndexOf(base, ".")
    IN  IF dot <= 0 THEN "" ELSE SliceFrom(base, dot)

\* lintFile names the severity of an issue `type`; it is held in severity here.
LintFileMdcIssues(content) ==
    LET frontmatter == parseMdcFrontmatter(content)
        globs       == Get(frontmatter.map, "globs")
    IN  IF frontmatter.null
        THEN <<Issue("error", "Missing YAML frontmatter",
                     "Add --- block with description and alwaysApply: true", NoLine)>>
        ELSE (IF ~Truthy(Get(frontmatter.map, "alwaysApply"))
              THEN <<Issue("error", "Missing alwaysApply: true",
                           "Add alwaysApply: true to frontmatter for agent mode", NoLine)>>
              ELSE <<>>)
          \o (IF ~Truthy(Get(frontmatter.map, "description"))
              THEN <<Issue("warning", "Missing description in frontmatter",
                           "Add a description so Cursor knows when to apply this rule",
                           NoLine)>>
              ELSE <<>>)
          \o (IF /\ Truthy(globs) /\ globs.type = "string"
                 /\ Includes(globs.s, ",") /\ ~StartsWith(globs.s, "[")
              THEN <<Issue("error",
                           "Bad glob syntax: use YAML array, not comma-separated string",
                           "Use globs:\\n  - \"*.ts\"\\n  - \"*.tsx\"", NoLine)>>
              ELSE <<>>)

\* The file-length check.  The dash of the second message is U+2014 in the
\* source and "-" here.
LengthIssues(lineCount) ==
    IF lineCount > MAX_LINES_ERROR
    THEN <<Issue("error",
                 "File is " \o ToString(lineCount) \o " lines (max recommended: "
                     \o ToString(MAX_LINES_WARNING) \o ")",
                 "Long files may exceed context window. Split into multiple .mdc files.",
                 NoLine)>>
    ELSE IF lineCount > MAX_LINES_WARNING
    THEN <<Issue("warning",
                 "File is " \o ToString(lineCount) \o " lines - consider splitting",
                 "Shorter files are more reliably loaded into context.", NoLine)>>
    ELSE <<>>

lintFile(filePath, content) ==
    (IF Basename(filePath) = ".cursorrules"
     THEN <<Issue("warning", ".cursorrules may be ignored in agent mode",
                  "Use .cursor/rules/*.mdc with alwaysApply: true for agent mode compatibility",
                  NoLine)>>
     ELSE <<>>)
    \o (IF Extname(filePath) = ".mdc" THEN LintFileMdcIssues(content) ELSE <<>>)
    \o VagueIssues(LINTFILE_VAGUE_PATTERNS, content, ToLowerCase(content), 1)
    \o LengthIssues(Len(Split(content)))

-----------------------------------------------------------------------------
(* audit.js : conflicts and redundancy between rules *)

WordChars ==
    {Ch("abcdefghijklmnopqrstuvwxyzABCDEFGHIJKLMNOPQRSTUVWXYZ0123456789_", i) :
        i \in 1..63}

\* g.match(/\*\.(\w+)$/): the last "*." with only word characters after it.
ExtMatch(g) ==
    LET at   == LastIndexOf(g, "*.")
        rest == SliceFrom(g, at + 2)
    IN  IF at # -1 /\ Len(rest) > 0 /\ \A i \in 1..Len(rest) : Ch(rest, i) \in WordChars
        THEN [matched |-> TRUE, ext |-> rest]
        ELSE [matched |-> FALSE, ext |-> ""]

\* globsOverlap without the comparison of the extensions.
globsOverlap_SameText(a, b) ==
    \/ a = b
    \/ a = "**/*" \/ b = "**/*"

globsOverlap(a, b) ==
    \/ a = b
    \/ a = "**/*" \/ b = "**/*"
    \/ /\ ExtMatch(a).matched /\ ExtMatch(b).matched
       /\ ExtMatch(a).ext = ExtMatch(b).ext

\* The table of findContradictions: each regular expression is an alternation
\* of literals, held as the sequence of its alternatives.
ContradictionPairs == <<
    << <<"always use semicolons">>, <<"never use semicolons", "no semicolons">> >>,
    << <<"use single quotes">>,     <<"use double quotes">> >>,
    << <<"use tabs">>,              <<"use spaces">> >>,
    << <<"use css modules">>,       <<"use tailwind", "use styled-components">> >>,
    << <<"use relative imports">>,  <<"use absolute imports", "use path aliases">> >>,
    << <<"prefer classes">>,        <<"prefer functions", "prefer functional">> >>,
    << <<"use default exports">>,   <<"use named exports", "no default exports">> >>,
    << <<"use arrow functions">>,   <<"use function declarations", "avoid arrow functions">> >>,
    << <<"use any">>,               <<"never use any", "avoid any", "no any">> >> >>

\* RegExp.prototype.source
Source(pat) == JoinWith(pat, "|")

\* pat.test(s) for a text s that FoldCase has been applied to.
Test(pat, s) == \E k \in DOMAIN pat : Includes(s, pat[k])

RECURSIVE Contradictions(_, _, _)
Contradictions(a, b, k) ==
    IF k > Len(ContradictionPairs) THEN <<>>
    ELSE LET patA == ContradictionPairs[k][1]
             patB == ContradictionPairs[k][2]
         IN  (IF (Test(patA, a) /\ Test(patB, b)) \/ (Test(patB, a) /\ Test(patA, b))
              THEN <<"Conflicting style: \"" \o Source(patA) \o "\" vs \""
                        \o Source(patB) \o "\"">>
              ELSE <<>>)
             \o Contradictions(a, b, k + 1)

findContradictions(a, b) == Contradictions(FoldCase(a), FoldCase(b), 1)

\* new Set(body.split('\n').map(l => l.trim()).filter(l => l.length > 10))
LineSet(body) ==
    LET lines == Split(body)
    IN  {Trim(lines[i]) : i \in {k \in DOMAIN lines : Len(Trim(lines[k])) > 10}}

\* The bodies of the rule lists of the model, and what the two loops compute
\* from them, computed once.
RECURSIVE Join(_)
Join(seq) == IF seq = <<>> THEN "" ELSE Head(seq) \o Join(Tail(seq))

RuleBodies == {
    "Use tabs for indentation.\nAlways use semicolons.\n",
    "Use spaces for indentation.\nNever use any.\n",
    "  Use tabs for indentation.  \nshort line\n",
    "use tabs\nUSE SPACES\n" }

\* Bodies of lines longer than 10 characters: five lines; three of them
\* and two others (3 of 5); four of them (4 of 5); two of them and one other
\* (2 of 3); twice the five with three others each (5 of 8).
OverlapLine(name) == "Always " \o name \o " first.\n"

OverlapBody(names) == Join([k \in DOMAIN names |-> OverlapLine(names[k])])

OverlapBodies == {
    OverlapBody(<<"one", "two", "three", "four", "five">>),
    OverlapBody(<<"one", "two", "three", "six", "seven">>),
    OverlapBody(<<"four", "one", "two", "three", "six">>),
    OverlapBody(<<"one", "two", "six">>),
    OverlapBody(<<"one", "two", "three", "four", "five", "eight", "nine", "ten">>),
    OverlapBody(<<"one", "two", "three", "four", "five", "eleven", "twelve", "thirteen">>) }

\* Tabs at the odd places of a list and spaces at the even ones.
ClashBody(i) ==
    IF i % 2 = 1 THEN "Use tabs for indentation.\nAlways use semicolons.\n"
    ELSE "Use spaces for indentation.\nNever use any.\n"

\* Bodies of one directive each, a prohibition of the table.
ProhibitingBodies == {
    "Never use any.\n",
    "Avoid any.\n",
    "No semicolons.\n",
    "Avoid arrow functions.\n" }

AllRuleBodies ==
    RuleBodies \cup OverlapBodies \cup ProhibitingBodies \cup {ClashBody(1), ClashBody(2)}

ContradictionsOf ==
    [a \in AllRuleBodies |->
        [b \in AllRuleBodies |-> findContradictions(ToLowerCase(a), ToLowerCase(b))]]

LineSetOf == [body \in AllRuleBodies |-> LineSet(body)]

\* The pairs (i, j), i < j, in the order of the two nested loops.
RECURSIVE PairsFrom(_, _, _)
PairsFrom(n, i, j) ==
    IF i > n THEN <<>>
    ELSE IF j > n THEN PairsFrom(n, i + 1, i + 2)
    ELSE <<<<i, j>>>> \o PairsFrom(n, i, j + 1)

Pairs(n) == PairsFrom(n, 1, 2)

\* ConflictOf skipping every pair without a glob overlap, alwaysApply or not.
ConflictOf_GlobsOnly(a, b) ==
    LET overlapping ==
            \E x \in DOMAIN a.globs : \E y \in DOMAIN b.globs :
                globsOverlap(a.globs[x], b.globs[y])
        contradictions ==
            findContradictions(ToLowerCase(a.body), ToLowerCase(b.body))
    IN  IF ~overlapping THEN <<>>
        ELSE IF Len(contradictions) > 0
        THEN <<[fileA |-> a.file, fileB |-> b.file,
                reason |-> JoinWith(contradictions, "; "), severity |-> "warning"]>>
        ELSE <<>>

\* The body of the loops of findConflicts for one pair: no or one conflict.
ConflictOf(a, b) ==
    LET overlapping ==
            \E x \in DOMAIN a.globs : \E y \in DOMAIN b.globs :
                globsOverlap(a.globs[x], b.globs[y])
        contradictions ==
            IF a.body \in AllRuleBodies /\ b.body \in AllRuleBodies
            THEN ContradictionsOf[a.body][b.body]
            ELSE findContradictions(ToLowerCase(a.body), ToLowerCase(b.body))
    IN  IF ~overlapping /\ ~a.alwaysApply /\ ~b.alwaysApply THEN <<>>
        ELSE IF Len(contradictions) > 0
        THEN <<[fileA |-> a.file, fileB |-> b.file,
                reason |-> JoinWith(contradictions, "; "), severity |-> "warning"]>>
        ELSE <<>>

RECURSIVE ConflictsOver(_, _, _)
ConflictsOver(rs, pairs, k) ==
    IF k > Len(pairs) THEN <<>>
    ELSE ConflictOf(rs[pairs[k][1]], rs[pairs[k][2]]) \o ConflictsOver(rs, pairs, k + 1)

findConflicts(rs) == ConflictsOver(rs, Pairs(Len(rs)), 1)

\* Math.round(overlap / smaller * 100): the quotients that arise are no
\* closer to a half than the rounding of the division and the product.
RoundPct(overlap, smaller) == (200 * overlap + smaller) \div (2 * smaller)

\* RedundancyOf with the ratio taken over both line sets together.
RedundancyOf_OverBoth(a, b) ==
    LET aLines  == LineSet(a.body)
        bLines  == LineSet(b.body)
        overlap == Cardinality(aLines \cap bLines)
        both    == Cardinality(aLines) + Cardinality(bLines)
    IN  IF aLines = {} \/ bLines = {} THEN <<>>
        ELSE IF 5 * overlap > 3 * both
        THEN <<[fileA |-> a.file, fileB |-> b.file,
                overlapPct |-> RoundPct(overlap, both), sharedLines |-> overlap]>>
        ELSE <<>>

\* RedundancyOf reporting a ratio of 0.6 as well.
RedundancyOf_Inclusive(a, b) ==
    LET aLines  == LineSet(a.body)
        bLines  == LineSet(b.body)
        overlap == Cardinality(aLines \cap bLines)
        smaller == IF Cardinality(aLines) <= Cardinality(bLines)
                   THEN Cardinality(aLines) ELSE Cardinality(bLines)
    IN  IF aLines = {} \/ bLines = {} THEN <<>>
        ELSE IF 5 * overlap >= 3 * smaller
        THEN <<[fileA |-> a.file, fileB |-> b.file,
                overlapPct |-> RoundPct(overlap, smaller), sharedLines |-> overlap]>>
        ELSE <<>>

\* RedundancyOf with the ratio taken over the lines of the first rule.
RedundancyOf_OverFirst(a, b) ==
    LET aLines  == LineSet(a.body)
        bLines  == LineSet(b.body)
        overlap == Cardinality(aLines \cap bLines)
        smaller == Cardinality(aLines)
    IN  IF aLines = {} \/ bLines = {} THEN <<>>
        ELSE IF 5 * overlap > 3 * smaller
        THEN <<[fileA |-> a.file, fileB |-> b.file,
                overlapPct |-> RoundPct(overlap, smaller), sharedLines |-> overlap]>>
        ELSE <<>>

\* The body of the loops of findRedundancy for one pair: no or one entry.
RedundancyOf(a, b) ==
    LET aLines  == IF a.body \in AllRuleBodies THEN LineSetOf[a.body] ELSE LineSet(a.body)
        bLines  == IF b.body \in AllRuleBodies THEN LineSetOf[b.body] ELSE LineSet(b.body)
        overlap == Cardinality(aLines \cap bLines)
        smaller == IF Cardinality(aLines) <= Cardinality(bLines)
                   THEN Cardinality(aLines) ELSE Cardinality(bLines)
    IN  IF aLines = {} \/ bLines = {} THEN <<>>
        \* overlap / smaller > 0.6
        ELSE IF 5 * overlap > 3 * smaller
        THEN <<[fileA |-> a.file, fileB |-> b.file,
                overlapPct |-> RoundPct(overlap, smaller), sharedLines |-> overlap]>>
        ELSE <<>>

RECURSIVE RedundancyOver(_, _, _)
RedundancyOver(rs, pairs, k) ==
    IF k > Len(pairs) THEN <<>>
    ELSE RedundancyOf(rs[pairs[k][1]], rs[pairs[k][2]])
            \o RedundancyOver(rs, pairs, k + 1)

findRedundancy(rs) == RedundancyOver(rs, Pairs(Len(rs)), 1)

-----------------------------------------------------------------------------
(* audit.js : the rule loader *)

\* content.replace(/^---\n[\s\S]*?\n---\n?/, '')
StripHeader(content) ==
    LET match == MatchFrontmatter(content)
    IN  IF ~match.matched THEN content
        ELSE IF Slice(content, match.end, match.end + 1) = "\n"
        THEN SliceFrom(content, match.end + 1)
        ELSE SliceFrom(content, match.end)

Quotes == {"\"", "'"}

\* g.replace(/^["']|["']$/g, ''): one quote off the start, one off the end.
StripQuotes(g) ==
    LET rest == IF Len(g) > 0 /\ Ch(g, 1) \in Quotes THEN SliceFrom(g, 1) ELSE g
    IN  IF Len(rest) > 0 /\ Ch(rest, Len(rest)) \in Quotes
        THEN Slice(rest, 0, Len(rest) - 1)
        ELSE rest

\* Lines 198-205: the globs of a string value.
DecodeGlobs(globVal) ==
    LET trimmed == Trim(globVal)
        inner   == IF Len(trimmed) >= 2 THEN SubSeq(trimmed, 2, Len(trimmed) - 1) ELSE ""
        items   == SplitBy(inner, ",")
    IN  IF StartsWith(trimmed, "[")
        THEN SelectSeq([k \in DOMAIN items |-> StripQuotes(Trim(items[k]))],
                       LAMBDA g : g # "")
        ELSE <<trimmed>>

\* Lines 189-208: the rule of one entry.
LoadRule(entry, content) ==
    LET fm   == parseFrontmatter(content)
        data == fm.found /\ ~fm.data.null
    IN  [file        |-> entry,
         body        |-> StripHeader(content),
         globs       |-> IF data /\ Get(fm.data.map, "globs").type = "string"
                         THEN DecodeGlobs(Get(fm.data.map, "globs").s)
                         ELSE <<>>,
         alwaysApply |-> data /\ Get(fm.data.map, "alwaysApply") = Bool(TRUE)]

\* The rules of the texts of the project, loaded once each.
LoadRuleOf == [content \in RuleTexts |-> LoadRule("", content)]

RECURSIVE LoadEntries(_, _)
LoadEntries(entries, listing) ==
    IF listing = <<>> THEN Return(<<>>)
    ELSE IF ~IsMdc(Head(listing)) THEN LoadEntries(entries, Tail(listing))
    ELSE LET file == entries[Head(listing)]
             rest == LoadEntries(entries, Tail(listing))
         IN  IF ~file.readable \/ rest.threw THEN Throw
             ELSE Return(<<IF file.text \in DOMAIN LoadRuleOf
                           THEN [LoadRuleOf[file.text] EXCEPT !.file = Head(listing)]
                           ELSE LoadRule(Head(listing), file.text)>>
                         \o rest.value)

\* loadRules(dir) on the rules directory rd, readdirSync returning listing.
loadRules(rd, listing) ==
    IF rd.kind = "absent" THEN Return(<<>>)
    ELSE IF rd.kind = "file" THEN Throw
    ELSE LoadEntries(rd.entries, listing)

-----------------------------------------------------------------------------
(* autofix.js : fixFrontmatter.  The texts of the model hold no "$", so a
   replacement string stands for itself. *)

IsWordChar(c) == c \in WordChars

\* The length of the longest prefix of word characters.
RECURSIVE WordPrefix(_)
WordPrefix(s) ==
    IF Len(s) > 0 /\ IsWordChar(Ch(s, 1)) THEN 1 + WordPrefix(SliceFrom(s, 1)) ELSE 0

\* /^(\w+):([^\s])/ on one line, '$1: $2'.
SpaceAfterColon(line) ==
    LET w == WordPrefix(line)
    IN  IF /\ w > 0 /\ Len(line) >= w + 2
           /\ Ch(line, w + 1) = ":"
           /\ Ch(line, w + 2) \notin WhiteSpace
        THEN Slice(line, 0, w + 1) \o " " \o SliceFrom(line, w + 1)
        ELSE line

\* yaml.replace(/^(\w+):([^\s])/gm, '$1: $2')
FixColons(yaml) ==
    LET lines == Split(yaml)
    IN  JoinWith([k \in DOMAIN lines |-> SpaceAfterColon(lines[k])], "\n")

\* Lines 24-28: the list with every item trimmed, unquoted and quoted.
Requote(inner) ==
    LET items == SplitBy(inner, ",")
    IN  "globs: ["
        \o JoinWith([k \in DOMAIN items |-> "\"" \o StripQuotes(Trim(items[k])) \o "\""], ", ")
        \o "]"

\* /globs:\s*\[([^\]]*)\]/ at the 0-based index p of "globs:": the end of
\* the match and the capture, when it matches there.
GlobsListAt(yaml, p) ==
    LET after == SliceFrom(yaml, p + 6)
        open  == Len(after) - Len(TrimStart(after))
        close == IndexOf(SliceFrom(after, open + 1), "]")
    IN  IF Slice(after, open, open + 1) = "[" /\ close # -1
        THEN [matched |-> TRUE,
              inner   |-> Slice(after, open + 1, open + 1 + close),
              end     |-> p + 6 + open + 1 + close + 1]
        ELSE [matched |-> FALSE, inner |-> "", end |-> 0]

\* yaml.replace(/globs:\s*\[([^\]]*)\]/g, ...): the matches from left to right.
RECURSIVE FixQuoting(_)
FixQuoting(yaml) ==
    LET at == {p \in Occurrences(yaml, "globs:") : GlobsListAt(yaml, p).matched}
    IN  IF at = {} THEN yaml
        ELSE LET p == Min(at)
                 m == GlobsListAt(yaml, p)
             IN  Slice(yaml, 0, p) \o Requote(m.inner) \o FixQuoting(SliceFrom(yaml, m.end))

NewHeader == "---\ndescription: \nalwaysApply: false\n---\n"

fixFrontmatter(content) ==
    LET fm    == parseFrontmatter(content)
        match == MatchFrontmatter(content)
    IN  IF ~fm.found THEN NewHeader \o content
        ELSE IF ~fm.error.null /\ match.matched
        THEN "---\n" \o FixQuoting(FixColons(match.block)) \o "\n---"
             \o SliceFrom(content, match.end)
        ELSE content

-----------------------------------------------------------------------------
(* autofix.js : splitOversizedFile and autoFix *)

\* Math.ceil(length / 4)
Tokens(text) == (Len(text) + 3) \div 4

\* body.split(/(?=^## )/m): cut before every "## " that starts a line after
\* the first character (the texts hold no line terminator but "\n").
RECURSIVE SplitSections(_)
SplitSections(body) ==
    LET i == IndexOf(body, "\n## ")
    IN  IF i = -1 THEN <<body>>
        ELSE <<Slice(body, 0, i + 1)>> \o SplitSections(SliceFrom(body, i + 1))

RECURSIVE SkipNewlines(_)
SkipNewlines(s) ==
    IF Len(s) > 0 /\ Ch(s, 1) = "\n" THEN SkipNewlines(SliceFrom(s, 1)) ELSE s

\* body.split(/\n\n+/): cut at every longest run of two or more "\n".
RECURSIVE SplitParagraphs(_)
SplitParagraphs(body) ==
    LET i == IndexOf(body, "\n\n")
    IN  IF i = -1 THEN <<body>>
        ELSE <<Slice(body, 0, i)>> \o SplitParagraphs(SkipNewlines(SliceFrom(body, i)))

\* .filter(s => s.trim())
NonBlank(pieces) == SelectSeq(pieces, LAMBDA piece : Trim(piece) # "")

\* Lines 65-79: the sections from the k-th on grouped under the limit,
\* current holding the sections of the group that is open.
RECURSIVE GroupSections(_, _, _, _, _)
GroupSections(sections, k, current, currentTokens, maxTokens) ==
    IF k > Len(sections)
    THEN IF Len(current) > 0 THEN <<JoinWith(current, "\n")>> ELSE <<>>
    ELSE LET sectionTokens == Tokens(sections[k])
         IN  IF currentTokens + sectionTokens > maxTokens /\ Len(current) > 0
             THEN <<JoinWith(current, "\n")>>
                  \o GroupSections(sections, k + 1, <<sections[k]>>, sectionTokens, maxTokens)
             ELSE GroupSections(sections, k + 1, Append(current, sections[k]),
                                currentTokens + sectionTokens, maxTokens)

\* `-part${i + 1}`, for the parts the texts of the model are cut into.
PartSuffix(i) == "-part" \o <<"1", "2", "3", "4">>[i]

NoSplit == [split |-> FALSE, parts |-> <<>>, frontmatter |-> parseFrontmatter("")]

\* splitOversizedFile on the content it has read: null, or the parts.
splitOversizedFile(content, maxTokens) ==
    IF Tokens(content) <= maxTokens THEN NoSplit
    ELSE LET fm         == parseFrontmatter(content)
             body       == StripHeader(content)
             sections   == NonBlank(SplitSections(body))
             paragraphs == NonBlank(SplitParagraphs(body))
             mid        == (Len(paragraphs) + 1) \div 2
             grouped    == GroupSections(sections, 1, <<>>, 0, maxTokens)
         IN  IF Len(sections) <= 1
             THEN [split |-> TRUE,
                   parts |-> <<[body   |-> JoinWith(SubSeq(paragraphs, 1, mid), "\n\n"),
                                suffix |-> "-part1"],
                               [body   |-> JoinWith(SubSeq(paragraphs, mid + 1,
                                                           Len(paragraphs)), "\n\n"),
                                suffix |-> "-part2"]>>,
                   frontmatter |-> fm]
             ELSE [split |-> TRUE,
                   parts |-> [i \in DOMAIN grouped |->
                                 [body |-> grouped[i], suffix |-> PartSuffix(i)]],
                   frontmatter |-> fm]

\* `${v}` of a value of the mapping.
ValueText(v) == IF v.type = "boolean" THEN (IF v.b THEN "true" ELSE "false") ELSE v.s

\* The keys of Object.entries(data), in the order the parser inserted them
\* (no key of the texts is a number).
RECURSIVE KeysIn(_, _, _)
KeysIn(lines, i, seen) ==
    IF i > Len(lines) THEN <<>>
    ELSE LET colonIdx == IndexOf(lines[i], ":")
             key      == Trim(Slice(lines[i], 0, colonIdx))
         IN  IF colonIdx = -1 \/ key \in seen \/ key = "__proto__"
             THEN KeysIn(lines, i + 1, seen)
             ELSE <<key>> \o KeysIn(lines, i + 1, seen \cup {key})

\* Lines 126-138: the content of a part, under the header of the original.
PartContent(content, fm, part) ==
    IF fm.found /\ ~fm.data.null
    THEN LET keys    == KeysIn(Split(MatchFrontmatter(content).block), 1, {})
             fmLines == [k \in DOMAIN keys |->
                            keys[k] \o ": " \o ValueText(fm.data.map[keys[k]])]
         IN  "---\n" \o JoinWith(fmLines, "\n") \o "\n---\n" \o part.body
    ELSE part.body

\* entry.replace('.mdc', '')
BaseName(entry) ==
    LET i == IndexOf(entry, ".mdc")
    IN  IF i = -1 THEN entry ELSE Slice(entry, 0, i) \o SliceFrom(entry, i + 4)

PartName(entry, part) == BaseName(entry) \o part.suffix \o ".mdc"

\* writeFileSync(path, text) on the entries of the directory.
WriteFile(entries, name, text) ==
    [n \in DOMAIN entries \cup {name} |-> IF n = name THEN File(text) ELSE entries[n]]

RECURSIVE WriteParts(_, _, _, _, _)
WriteParts(entries, entry, content, split, i) ==
    IF i > Len(split.parts) THEN entries
    ELSE WriteParts(WriteFile(entries, PartName(entry, split.parts[i]),
                              PartContent(content, split.frontmatter, split.parts[i])),
                    entry, content, split, i + 1)

\* The names a directory of the model can hold, in ascending order.
FixNames == <<"a-part1-part1.mdc", "a-part1-part2.mdc", "a-part1.mdc",
              "a-part2.mdc", "a.mdc", "notes.txt">>

\* fs.readdirSync(rulesDir), ascending or descending.
FixListing(entries, ascending) ==
    LET sorted == SelectSeq(FixNames, LAMBDA n : n \in DOMAIN entries)
    IN  IF ascending THEN sorted ELSE Reverse(sorted)

\* The options of autoFix: maxTokens 0 stands for none given, as
\* options.maxTokens || 1500 takes both.
Options(dryRun, split, maxTokens) ==
    [dryRun |-> dryRun, split |-> split, maxTokens |-> maxTokens]

DefaultMaxTokens == 1500

MaxTokensOf(options) ==
    IF options.maxTokens = 0 THEN DefaultMaxTokens ELSE options.maxTokens

\* Lines 97-110: the loop of step 1 over the rest of the listing.
RECURSIVE FixEntries(_, _, _, _)
FixEntries(entries, listing, options, fixed) ==
    IF listing = <<>> THEN [threw |-> FALSE, entries |-> entries, list |-> fixed]
    ELSE IF ~IsMdc(Head(listing)) THEN FixEntries(entries, Tail(listing), options, fixed)
    ELSE IF ~entries[Head(listing)].readable
    THEN [threw |-> TRUE, entries |-> entries, list |-> fixed]
    ELSE LET original == entries[Head(listing)].text
             repaired == fixFrontmatter(original)
         IN  IF repaired # original
             THEN FixEntries(IF ~options.dryRun
                             THEN WriteFile(entries, Head(listing), repaired)
                             ELSE entries,
                             Tail(listing), options,
                             Append(fixed, [file   |-> Head(listing),
                                            change |-> "frontmatter repaired"]))
             ELSE FixEntries(entries, Tail(listing), options, fixed)

\* Lines 114-152: the loop of step 2 over the rest of the listing.
RECURSIVE SplitEntries(_, _, _, _)
SplitEntries(entries, listing, options, splits) ==
    IF listing = <<>> THEN [threw |-> FALSE, entries |-> entries, list |-> splits]
    ELSE IF ~IsMdc(Head(listing)) THEN SplitEntries(entries, Tail(listing), options, splits)
    ELSE IF ~entries[Head(listing)].readable
    THEN [threw |-> TRUE, entries |-> entries, list |-> splits]
    ELSE LET entry   == Head(listing)
             content == entries[entry].text
             split   == splitOversizedFile(content, MaxTokensOf(options))
         IN  IF split.split /\ Len(split.parts) > 1
             THEN SplitEntries(IF ~options.dryRun
                               THEN Without(WriteParts(entries, entry, content, split, 1),
                                            entry)
                               ELSE entries,
                               Tail(listing), options,
                               Append(splits,
                                      [file  |-> entry,
                                       parts |-> [i \in DOMAIN split.parts |->
                                                     PartName(entry, split.parts[i])]]))
             ELSE SplitEntries(entries, Tail(listing), options, splits)

\* Lines 158-163; the backquotes of the action are written "'".
Deduped(redundant) ==
    [k \in DOMAIN redundant |->
        [fileA      |-> redundant[k].fileA,
         fileB      |-> redundant[k].fileB,
         overlapPct |-> redundant[k].overlapPct,
         action     |-> "manual review needed - run 'cursor-doctor audit' for details"]]

Results(fixed, splits, deduped, errors) ==
    [fixed |-> fixed, splits |-> splits, deduped |-> deduped, errors |-> errors]

\* What a call leaves: the directory, and the results or an exception.
Outcome(rd, result) == [rulesDir |-> rd, ret |-> result]

\* Lines 155-168: step 3 and the return, after the two loops.
Flagged(one, two, ascending) ==
    IF two.threw THEN Outcome(Dir(two.entries), Throw)
    ELSE Outcome(Dir(two.entries),
                 Return(Results(one.list, two.list,
                                Deduped(findRedundancy(
                                    loadRules(Dir(two.entries),
                                              FixListing(two.entries, ascending)).value)),
                                <<>>)))

\* Lines 113-153: step 2, after the loop of step 1.
Splitted(one, options, ascending) ==
    IF one.threw \/ ~options.split
    THEN Flagged(one, [threw |-> one.threw, entries |-> one.entries, list |-> <<>>],
                 ascending)
    ELSE Flagged(one,
                 SplitEntries(one.entries, FixListing(one.entries, ascending),
                              options, <<>>),
                 ascending)

\* autoFix(dir, options) on the rules directory rd, readdirSync listing in
\* ascending or in descending order.
autoFix(rd, options, ascending) ==
    IF rd.kind = "absent"
    THEN Outcome(rd, Return(Results(<<>>, <<>>, <<>>, <<"No .cursor/rules/ directory found">>)))
    ELSE IF rd.kind = "file" THEN Outcome(rd, Throw)
    ELSE Splitted(FixEntries(rd.entries, FixListing(rd.entries, ascending), options, <<>>),
                  options, ascending)

-----------------------------------------------------------------------------
(* license.js : the license key *)

SALT == "cursor-doctor-v1"

HexDigits == "0123456789abcdef"

KeyChars == WordChars \cup {"-"}

\* The place of a character among those of the texts a digest is taken of.
CharCode(c) ==
    IndexOf("abcdefghijklmnopqrstuvwxyzABCDEFGHIJKLMNOPQRSTUVWXYZ0123456789_-:. ", c) + 2

\* The sum of the codes of the characters lo..hi, each times its place.
RECURSIVE WeightedSum(_, _, _)
WeightedSum(text, lo, hi) ==
    IF lo > hi THEN 0
    ELSE IF lo = hi THEN (CharCode(Ch(text, lo)) * lo) % 65536
    ELSE LET mid == (lo + hi) \div 2
         IN  (WeightedSum(text, lo, mid) + WeightedSum(text, mid + 1, hi)) % 65536

RECURSIVE HexFrom(_, _)
HexFrom(sum, i) ==
    IF i > 64 THEN ""
    ELSE Ch(HexDigits, ((((sum + i) * (sum + i)) \div i) % 16) + 1) \o HexFrom(sum, i + 1)

\* crypto.createHash('sha256').update(text).digest('hex'): 64 hexadecimal
\* digits that depend on the text alone.  The digits are not those of
\* SHA-256; nothing below depends on which they are.
Sha256Hex(text) == HexFrom(WeightedSum(text, 1, Len(text)), 1)

\* hashKey storing the key as it is.
hashKey_Plain(key) == Trim(key)

hashKey(key) == Sha256Hex(SALT \o ":" \o Trim(key))

\* /^[a-zA-Z0-9\-_]+$/.test(text)
IsKeyText(text) ==
    Len(text) > 0 /\ \A i \in 1..Len(text) : Ch(text, i) \in KeyChars

validateKeyFormat(key) ==
    LET trimmed == Trim(key)
    IN  IF Len(trimmed) < 16 \/ Len(trimmed) > 128 THEN FALSE
        ELSE IsKeyText(trimmed)

\* stored.length === 64 && /^[a-f0-9]+$/.test(stored)
IsStoredHash(stored) ==
    /\ Len(stored) = 64
    /\ \A i \in 1..Len(stored) : Includes(HexDigits, Ch(stored, i))

\* The body of the loop of isLicensed for one path.
LicensedBy(file) ==
    file.exists /\ file.readable /\ IsStoredHash(Trim(file.text))

\* isLicensed(dir), the license files being those of lic.
isLicensed(lic) == LicensedBy(lic.project) \/ LicensedBy(lic.home)

\* The two license files: <dir>/.cursor-doctor-license and the one of the
\* home directory, which can be written or not.
License(projectFile, homeFile, writable, activated) ==
    [project |-> projectFile, home |-> homeFile, writable |-> writable,
     activated |-> activated]

NoLicense == License(NoFile, NoFile, TRUE, FALSE)

HomePath == "/home/.cursor-doctor-license"

\* activateLicense(dir, key): what it returns, and the license files after it.
activateLicense(lic, key) ==
    IF ~validateKeyFormat(key)
    THEN [value |-> [ok |-> FALSE, path |-> "", error |-> "Invalid key format"],
          license |-> lic]
    ELSE IF lic.writable
    THEN [value |-> [ok |-> TRUE, path |-> HomePath, error |-> ""],
          license |-> [lic EXCEPT !.home = File(hashKey(key) \o "\n"),
                                  !.activated = TRUE]]
    ELSE [value |-> [ok |-> FALSE, path |-> "",
                     error |-> "Failed to write license: EACCES"],
          license |-> lic]

-----------------------------------------------------------------------------
(* The documents a lint call is given *)

MaxHeaderLines == 2

HeaderLines == {
    "alwaysApply: true\n",
    "description: Test\n",
    "  invalid: indentation\n",
    "globs: \"*.ts, *.tsx\"\n",
    "globs: [\"*.ts\", \"*.tsx\"]\n",
    "tags:\n" }

\* The fourth body holds eleven U+0130 before the phrase.
Bodies == {
    "",
    "\n# Test Rule\nDo something specific.\n",
    "Write clean code and follow best practices.\n",
    "@@@@@@@@@@@be careful\n# Rule\n",
    "# Rule\nBE CONCISE\n" }

SeqsUpTo(S, n) == UNION {[1..k -> S] : k \in 0..n}

\* With or without the opening and the closing delimiter line.
Documents ==
    {open \o Join(h) \o close \o body :
        open \in {"", "---\n"}, close \in {"", "---\n"},
        h \in SeqsUpTo(HeaderLines, MaxHeaderLines),
        body \in Bodies}

\* Documents of 150, 151, 300 and 301 lines, and the long file of the test
\* suite (257 lines).
LongDocuments ==
    {GoodHeader \o Repeat("x\n", n) : n \in {145, 146, 295, 296}}
    \cup {"---\ndescription: Long file\nalwaysApply: true\n---\n\n# Long File\n"
           \o Repeat("Line of content.\n", 250)}

\* A phrase of the dictionary in the description only; a single pattern
\* and a bracketed list as globs of an otherwise complete header; a colon
\* without a space before an indented line; a list over two lines; an
\* indented line twice, after a colon and after a value; an indented line
\* without a colon; an indented line after an empty one; colons in a value,
\* a key twice, a line without a colon, a lone quote; the key __proto__.
HeaderCases == {
    "---\ndescription: Write clean code\nalwaysApply: true\n---\n# Rule\nUse const.\n",
    "---\ndescription: Test\nalwaysApply: true\nglobs: *.ts\n---\n# Rule\n",
    "---\ndescription:Test\n  nested: value\n---\n# Rule\n",
    "---\ntags:\n  name: a\nglobs: *.ts\n  name: a\n---\n# Rule\n",
    "---\ndescription: Test\n  continued on the next line\n---\n# Rule\n",
    "---\ndescription: Test\n\n  nested: value\n---\n# Rule\n",
    "---\nurl: \"http://a.b/c\"\nalwaysApply: false\nnote\nurl: x: y \nquote: \"\n---\n# Rule\n",
    "---\n__proto__: polluted\ndescription: Test\n---\n# Rule\n",
    "---\ndescription: Test\nglobs: ['*.ts',\n  \"src/a:b\" ]\n---\n# Rule\n",
    "---\ndescription: Test\nalwaysApply: true\nglobs: [\"*.ts\", \"*.tsx\"]\n---\n# Rule\n",
    "---\nglobs:\nalwaysApply: \"true\"\n---\n# Rule\n",
    "---\nglobs: '*.ts'\nalwaysApply: yes\n---\n# Rule\n",
    "---\nglobs: [\"\", '*.ts', , src/**]\nalwaysApply: true\n---\n# Rule\n" }

TestMdc == "test.mdc"

NoLast == [valid |-> FALSE, report |-> <<>>, calls |-> 0]

InitDoc ==
    /\ cursorrules = NoFile
    /\ rulesDir \in {Dir(TestMdc :> f) :
                        f \in {File(d) : d \in Documents \cup LongDocuments \cup HeaderCases}
                             \cup {Unreadable}}
    /\ hasSkills = FALSE
    /\ coverageGaps = <<>>
    /\ rules = <<>>
    /\ op = "none"
    /\ arg = <<>>
    /\ ret = Return(<<>>)
    /\ last = NoLast
    /\ license = NoLicense

\* One call of a function of one document, on a rule file of the project.
ParseFrontmatterCall ==
    /\ op = "none"
    /\ rulesDir.kind = "dir"
    /\ \E name \in DOMAIN rulesDir.entries :
        /\ rulesDir.entries[name].readable
        /\ op' = "parseFrontmatter"
        /\ arg' = rulesDir.entries[name].text
        /\ ret' = Return(parseFrontmatter(rulesDir.entries[name].text))
    /\ UNCHANGED <<project, rules, license, last>>

LintMdcFileCall ==
    /\ op = "none"
    /\ rulesDir.kind = "dir"
    /\ \E name \in DOMAIN rulesDir.entries :
        /\ op' = "lintMdcFile"
        /\ arg' = name
        /\ ret' = lintMdcFile(name, rulesDir.entries[name])
    /\ UNCHANGED <<project, rules, license, last>>

LintFileCall ==
    /\ op = "none"
    /\ rulesDir.kind = "dir"
    /\ \E name \in DOMAIN rulesDir.entries :
        /\ rulesDir.entries[name].readable
        /\ op' = "lintFile"
        /\ arg' = name
        /\ ret' = Return(lintFile(name, rulesDir.entries[name].text))
    /\ UNCHANGED <<project, rules, license, last>>

FixFrontmatterCall ==
    /\ op = "none"
    /\ rulesDir.kind = "dir"
    /\ \E name \in DOMAIN rulesDir.entries :
        /\ rulesDir.entries[name].readable
        /\ op' = "fixFrontmatter"
        /\ arg' = name
        /\ ret' = Return(fixFrontmatter(rulesDir.entries[name].text))
    /\ UNCHANGED <<project, rules, license, last>>

\* loadRules on the project of the one rule file.
LoadRulesCall ==
    /\ op = "none"
    /\ rulesDir.kind = "dir"
    /\ \E name \in DOMAIN rulesDir.entries :
        /\ op' = "loadRules"
        /\ arg' = name
        /\ ret' = loadRules(rulesDir, <<name>>)
    /\ UNCHANGED <<project, rules, license, last>>

NextDoc ==
    \/ ParseFrontmatterCall
    \/ LintMdcFileCall
    \/ LintFileCall
    \/ FixFrontmatterCall
    \/ LoadRulesCall

SpecDoc == InitDoc /\ [][NextDoc]_vars

-----------------------------------------------------------------------------
(* The rule lists the cross-file analysis is given *)

MaxRules == 2

RuleFiles == <<"a.mdc", "b.mdc", "c.mdc", "d.mdc">>

RuleScopes == {
    [alwaysApply |-> TRUE,  globs |-> <<>>],
    [alwaysApply |-> TRUE,  globs |-> <<"**/*">>],
    [alwaysApply |-> FALSE, globs |-> <<>>],
    [alwaysApply |-> FALSE, globs |-> <<"*.ts">>],
    [alwaysApply |-> FALSE, globs |-> <<"src/**/*.ts", "*.md">>],
    [alwaysApply |-> FALSE, globs |-> <<"*.py">>] }

Rule(file, body, scope) ==
    [file |-> file, body |-> body, globs |-> scope.globs,
     alwaysApply |-> scope.alwaysApply]

\* Scopes without alwaysApply: a directory, a declaration-file pattern, an
\* extension under a directory, the universal wildcard, and two lists.
GlobScopes == {
    [alwaysApply |-> FALSE, globs |-> <<"src/">>],
    [alwaysApply |-> FALSE, globs |-> <<"*.d.ts">>],
    [alwaysApply |-> FALSE, globs |-> <<"lib/*.ts">>],
    [alwaysApply |-> FALSE, globs |-> <<"**/*">>],
    [alwaysApply |-> FALSE, globs |-> <<"*.tsx", "*.ts">>],
    [alwaysApply |-> FALSE, globs |-> <<"*.md", "src/">>] }

RuleLists ==
    UNION {
        {[i \in 1..n |-> Rule(RuleFiles[i], bs[i], ss[i])] :
            bs \in [1..n -> RuleBodies], ss \in [1..n -> RuleScopes]}
        \cup {[i \in 1..n |-> Rule(RuleFiles[i], bs[i], [alwaysApply |-> FALSE, globs |-> <<>>])] :
                 bs \in [1..n -> OverlapBodies]}
        \cup {[i \in 1..n |-> Rule(RuleFiles[i], ClashBody(i), ss[i])] :
                 ss \in [1..n -> GlobScopes]}
        \cup {[i \in 1..n |-> Rule(RuleFiles[i], bs[i], [alwaysApply |-> TRUE, globs |-> <<>>])] :
                 bs \in [1..n -> ProhibitingBodies]} :
        n \in 0..MaxRules}

InitRules ==
    /\ cursorrules = NoFile
    /\ rulesDir = NoDir
    /\ hasSkills = FALSE
    /\ coverageGaps = <<>>
    /\ rules \in RuleLists
    /\ op = "none"
    /\ arg = <<>>
    /\ ret = Return(<<>>)
    /\ last = NoLast
    /\ license = NoLicense

FindConflictsCall ==
    /\ op = "none"
    /\ op' = "findConflicts"
    /\ ret' = Return(findConflicts(rules))
    /\ UNCHANGED <<project, rules, license, arg, last>>

FindRedundancyCall ==
    /\ op = "none"
    /\ op' = "findRedundancy"
    /\ ret' = Return(findRedundancy(rules))
    /\ UNCHANGED <<project, rules, license, arg, last>>

NextRules == FindConflictsCall \/ FindRedundancyCall

SpecRules == InitRules /\ [][NextRules]_vars

-----------------------------------------------------------------------------
(* The project a scan or a health check is run on *)

MaxGaps == 3

GapExts == <<".ts", ".py", ".go", ".rs", ".rb", ".java", ".kt", ".c">>

EntryNames == <<"a.mdc", "b.mdc", "c.mdc", "notes.txt">>

RuleFilesOnDisk == {File(t) : t \in RuleTexts} \cup {Unreadable}

CursorrulesOnDisk == {File(t) : t \in CursorrulesTexts} \cup {Unreadable}

\* fs.readdirSync(rulesDir): the names of the entries, in one of the orders
\* a file system lists them.
Listings(rd) ==
    LET sorted == SelectSeq(EntryNames, LAMBDA n : n \in DOMAIN rd.entries)
    IN  {sorted, Reverse(sorted)}

Edited ==
    /\ op' = "edit"
    /\ arg' = <<>>
    /\ ret' = Return(<<>>)
    /\ last' = NoLast
    /\ UNCHANGED <<rules, license>>

Init ==
    /\ cursorrules = NoFile
    /\ rulesDir = NoDir
    /\ hasSkills = FALSE
    /\ coverageGaps = <<>>
    /\ rules = <<>>
    /\ op = "none"
    /\ arg = <<>>
    /\ ret = Return(<<>>)
    /\ last = NoLast
    /\ license = NoLicense

\* .cursorrules is written, made unreadable, or removed.
EditCursorrules ==
    /\ \E f \in CursorrulesOnDisk \cup {NoFile} :
        /\ f # cursorrules
        /\ cursorrules' = f
    /\ Edited
    /\ UNCHANGED <<rulesDir, hasSkills, coverageGaps>>

\* .cursor/rules is created empty, replaced by a plain file, or removed.
EditRulesDir ==
    /\ \E d \in {NoDir, PlainFile, Dir(<<>>)} :
        /\ d.kind # rulesDir.kind
        /\ rulesDir' = d
    /\ Edited
    /\ UNCHANGED <<cursorrules, hasSkills, coverageGaps>>

\* An entry of .cursor/rules is written or made unreadable.
WriteEntry ==
    /\ rulesDir.kind = "dir"
    /\ \E k \in DOMAIN EntryNames : \E f \in RuleFilesOnDisk :
        /\ EntryNames[k] \in DOMAIN rulesDir.entries => rulesDir.entries[EntryNames[k]] # f
        /\ ~EndsWith(EntryNames[k], ".mdc") => f = File(GoodHeader \o "# Rule\nUse const.\n")
        /\ rulesDir' = Dir((EntryNames[k] :> f) @@ rulesDir.entries)
    /\ Edited
    /\ UNCHANGED <<cursorrules, hasSkills, coverageGaps>>

\* An entry of .cursor/rules is removed.
RemoveEntry ==
    /\ rulesDir.kind = "dir"
    /\ \E n \in DOMAIN rulesDir.entries :
        rulesDir' = Dir(Without(rulesDir.entries, n))
    /\ Edited
    /\ UNCHANGED <<cursorrules, hasSkills, coverageGaps>>

\* A skill with a SKILL.md is added to or removed from a skills directory.
EditSkills ==
    /\ hasSkills' = ~hasSkills
    /\ Edited
    /\ UNCHANGED <<cursorrules, rulesDir, coverageGaps>>

\* The sources of the project change: one more, or one fewer, file type
\* without a rule.
EditSources ==
    /\ \/ /\ Len(coverageGaps) < MaxGaps
          /\ coverageGaps' = Append(coverageGaps, GapExts[Len(coverageGaps) + 1])
       \/ /\ Len(coverageGaps) > 0
          /\ coverageGaps' = SubSeq(coverageGaps, 1, Len(coverageGaps) - 1)
    /\ Edited
    /\ UNCHANGED <<cursorrules, rulesDir, hasSkills>>

LintProject ==
    /\ \E listing \in Listings(rulesDir) :
        ret' = lintProject(ProjectDir, cursorrules, rulesDir, listing)
    /\ op' = "lintProject"
    /\ arg' = ProjectDir
    /\ UNCHANGED <<project, rules, license, last>>

\* A doctor call; last keeps the first report since the project changed
\* and counts the calls.
Doctor ==
    /\ \E listing \in Listings(rulesDir) :
        ret' = doctor(ProjectDir, cursorrules, rulesDir, hasSkills, coverageGaps, listing)
    /\ op' = "doctor"
    /\ arg' = ProjectDir
    /\ last' = IF ret'.threw THEN NoLast
               ELSE IF last.valid THEN [last EXCEPT !.calls = 2]
               ELSE [valid |-> TRUE, report |-> ret'.value, calls |-> 1]
    /\ UNCHANGED <<project, rules, license>>

LoadRules ==
    /\ \E listing \in Listings(rulesDir) :
        ret' = loadRules(rulesDir, listing)
    /\ op' = "loadRules"
    /\ arg' = ProjectDir
    /\ UNCHANGED <<project, rules, license, last>>

Next ==
    \/ EditCursorrules
    \/ EditRulesDir
    \/ WriteEntry
    \/ RemoveEntry
    \/ EditSkills
    \/ EditSources
    \/ LintProject
    \/ Doctor
    \/ LoadRules

Spec == Init /\ [][Next]_vars

-----------------------------------------------------------------------------
(* The rules directory an automatic fix is run on *)

\* A line of 2400 characters and its line end.
LongLine(word) == Repeat(word \o " ", 800) \o "\n"

\* A complete header and a short body; no header; a header that does not
\* parse; 1818 tokens in three sections; 1499 tokens without a header;
\* 1813 tokens in three paragraphs.
FixTexts == {
    GoodHeader \o "# Rule\nUse const.\n",
    "# Rule\nUse tabs for indentation.\n",
    "---\ndescription:Test\n  nested: value\n---\n# Rule\n",
    GoodHeader \o "# Rules\n## A\n" \o LongLine("aa") \o "## B\n" \o LongLine("bb")
        \o "## C\n" \o LongLine("cc"),
    Repeat("Use const. ", 545) \o "\n",
    GoodHeader \o LongLine("aa") \o "\n" \o LongLine("bb") \o "\n\n" \o LongLine("cc") }

FixFilesOnDisk == {File(t) : t \in FixTexts} \cup {Unreadable}

\* What "a-part1.mdc" holds beside an "a.mdc": the short rule file, the one
\* of three sections, or an entry that cannot be read.
FixPartsOnDisk ==
    {f \in FixFilesOnDisk :
        ~f.readable \/ StartsWith(f.text, GoodHeader \o "# Rule")}

FixDirectories ==
    {NoDir, PlainFile}
    \cup {Dir("notes.txt" :> File("notes\n"))}
    \cup {Dir("a.mdc" :> f) : f \in FixFilesOnDisk}
    \cup {Dir("a-part1.mdc" :> f @@ "notes.txt" :> File("notes\n")) : f \in FixFilesOnDisk}
    \cup {Dir("a.mdc" :> f @@ "a-part1.mdc" :> g) :
              f \in FixFilesOnDisk, g \in FixPartsOnDisk}

\* { dryRun, split } with and without each; no maxTokens.
FixOptions == {Options(d, s, 0) : d, s \in BOOLEAN}

InitFix ==
    /\ cursorrules = NoFile
    /\ rulesDir \in FixDirectories
    /\ hasSkills = FALSE
    /\ coverageGaps = <<>>
    /\ rules = <<>>
    /\ op = "none"
    /\ arg = <<>>
    /\ ret = Return(<<>>)
    /\ last = NoLast
    /\ license = NoLicense

\* autoFix(dir, options).  A run that writes is the first call on the
\* directory: the parts of a second one have names outside FixNames.
AutoFix ==
    /\ \E options \in FixOptions, ascending \in BOOLEAN :
        /\ op = "none" \/ options.dryRun
        /\ LET outcome == autoFix(rulesDir, options, ascending)
           IN  /\ rulesDir' = outcome.rulesDir
               /\ ret' = outcome.ret
        /\ arg' = options
    /\ op' = "autoFix"
    /\ UNCHANGED <<cursorrules, hasSkills, coverageGaps, rules, last, license>>

NextFix == AutoFix

SpecFix == InitFix /\ [][NextFix]_vars

-----------------------------------------------------------------------------
(* The license files an activation is run on *)

\* Well-formed keys of 19, 16 and 128 characters; keys of 15 and of 129
\* characters; a well-formed key between white space; keys with a space, with
\* a full stop; the empty key.
Keys == {
    "ABCD-1234-efgh_5678",
    "abcdefghijklmnop",
    Repeat("a", 128),
    "abcdefghijklmno",
    Repeat("a", 129),
    "  ABCD-1234-efgh_5678\n",
    "ABCD 1234 efgh 5678",
    "ABCD-1234-efgh.5678",
    "" }

\* What a license file holds before any activation: nothing, a key in plain
\* text, a line that is no hash, the hash of an earlier activation.
LicenseFilesOnDisk ==
    {NoFile, File("ABCD-1234-efgh_5678\n"), File("expired\n"),
     File(hashKey("abcdefghijklmnop") \o "\n")}

InitLicense ==
    /\ cursorrules = NoFile
    /\ rulesDir = NoDir
    /\ hasSkills = FALSE
    /\ coverageGaps = <<>>
    /\ rules = <<>>
    /\ op = "none"
    /\ arg = <<>>
    /\ ret = Return(<<>>)
    /\ last = NoLast
    /\ license \in {License(f, h, w, FALSE) :
                       f \in LicenseFilesOnDisk \cup {Unreadable},
                       h \in LicenseFilesOnDisk, w \in BOOLEAN}

ActivateLicense ==
    /\ \E key \in Keys :
        /\ arg' = key
        /\ ret' = Return(activateLicense(license, key).value)
        /\ license' = activateLicense(license, key).license
    /\ op' = "activateLicense"
    /\ UNCHANGED <<project, rules, last>>

IsLicensed ==
    /\ op' = "isLicensed"
    /\ arg' = ProjectDir
    /\ ret' = Return(isLicensed(license))
    /\ UNCHANGED <<project, rules, last, license>>

\* The license file of the project is written, made unreadable or removed.
EditProjectLicense ==
    /\ \E f \in LicenseFilesOnDisk \cup {Unreadable} :
        /\ f # license.project
        /\ license' = [license EXCEPT !.project = f]
    /\ op' = "edit"
    /\ arg' = <<>>
    /\ ret' = Return(<<>>)
    /\ UNCHANGED <<project, rules, last>>

NextLicense == ActivateLicense \/ IsLicensed \/ EditProjectLicense

SpecLicense == InitLicense /\ [][NextLicense]_vars

-----------------------------------------------------------------------------
(* What the claims say about a document and its lint result *)

\* The text of the rule file the last call was given.
Text == IF op = "parseFrontmatter" THEN arg ELSE rulesDir.entries[arg].text

\* The issues the last lint call returned.
Issues == IF op = "lintFile" THEN ret.value ELSE ret.value.issues

HasHeader(content) == MatchFrontmatter(content).matched

\* The lines of the header block that hold a colon.
HeaderPairs(content) ==
    SelectSeq(Split(MatchFrontmatter(content).block), LAMBDA l : Includes(l, ":"))

PairKey(line) == Trim(Slice(line, 0, IndexOf(line, ":")))

PairValue(line) ==
    LET raw == Trim(SliceFrom(line, IndexOf(line, ":") + 1))
    IN  IF Len(raw) >= 2 /\ StartsWith(raw, "\"") /\ EndsWith(raw, "\"")
        THEN SubSeq(raw, 2, Len(raw) - 1)
        ELSE raw

\* The header block has no line for the key.
HeaderOmits(content, key) ==
    /\ HasHeader(content)
    /\ \A i \in DOMAIN HeaderPairs(content) : PairKey(HeaderPairs(content)[i]) # key

\* The header block's (last) globs value is comma-separated and not bracketed.
CommaSeparatedGlobs(content) ==
    /\ HasHeader(content)
    /\ LET pairs == HeaderPairs(content)
           at    == {i \in DOMAIN pairs : PairKey(pairs[i]) = "globs"}
       IN  /\ at # {}
           /\ LET v == PairValue(pairs[CHOOSE i \in at : \A j \in at : j <= i])
              IN  Includes(v, ",") /\ ~StartsWith(v, "[")

ParsesWithoutError(content) ==
    parseFrontmatter(content).found /\ parseFrontmatter(content).error.null

IsMapping(map) == \A k \in DOMAIN map : map[k].type \in {"boolean", "string"}

TriState(r) ==
    /\ ~r.found => r.data.null /\ r.error.null
    /\ ~r.error.null => r.found /\ r.data.null
    /\ (r.found /\ r.error.null) => ~r.data.null /\ IsMapping(r.data.map)

\* C1: parseFrontmatter returns (it does not throw) and its result satisfies the
\* tri-state invariant: found = false implies data = null and error = null; a
\* non-null error implies found = true and data = null; found = true with a
\* null error implies data is a mapping.
C1_TriState ==
    op = "parseFrontmatter" => ~ret.threw /\ TriState(ret.value)

\* A block with an indentation error was parsed.
C1_Witness ==
    op = "parseFrontmatter" /\ ret.value.found /\ ~ret.value.error.null

AlwaysApplyError(issues) ==
    \E i \in DOMAIN issues :
        issues[i].severity = "error" /\ Includes(issues[i].message, "alwaysApply")

\* C2 as stated: every .mdc document whose header omits alwaysApply gets an
\* error-severity issue whose message contains "alwaysApply".
C2_Original ==
    (op = "lintMdcFile" /\ ~ret.threw /\ HeaderOmits(Text, "alwaysApply"))
        => AlwaysApplyError(Issues)

\* C2 as amended: every .mdc document whose header parses without error and
\* omits alwaysApply gets an error-severity issue whose message contains
\* "alwaysApply".
C2_MissingAlwaysApply ==
    (op = "lintMdcFile" /\ ~ret.threw /\ HeaderOmits(Text, "alwaysApply")
        /\ ParsesWithoutError(Text))
        => AlwaysApplyError(Issues)

C2_Witness ==
    /\ op = "lintMdcFile" /\ ~ret.threw /\ HeaderOmits(Text, "alwaysApply")
    /\ ParsesWithoutError(Text)
    /\ HeaderPairs(Text) # <<>>
    /\ AlwaysApplyError(Issues)

GlobMessages == {
    "Globs should be YAML array, not comma-separated string",
    "Bad glob syntax: use YAML array, not comma-separated string" }

GlobErrors(issues) ==
    {i \in DOMAIN issues :
        issues[i].severity = "error" /\ issues[i].message \in GlobMessages}

\* C3 as stated: every .mdc document whose header carries a comma-separated,
\* non-bracketed globs value gets exactly one error-severity glob-syntax issue.
C3_Original ==
    (op \in {"lintMdcFile", "lintFile"} /\ ~ret.threw /\ CommaSeparatedGlobs(Text))
        => Cardinality(GlobErrors(Issues)) = 1

\* C3 as amended: every .mdc document whose header parses without error and
\* carries a comma-separated, non-bracketed globs value gets exactly one
\* error-severity glob-syntax issue from lintMdcFile (lintFile, which has no
\* indentation check, gives exactly one whenever the header is found).
C3_BadGlobSyntax ==
    (/\ op \in {"lintMdcFile", "lintFile"} /\ ~ret.threw
     /\ CommaSeparatedGlobs(Text)
     /\ op = "lintMdcFile" => ParsesWithoutError(Text))
        => Cardinality(GlobErrors(Issues)) = 1

C3_Witness ==
    /\ op = "lintMdcFile" /\ ~ret.threw
    /\ CommaSeparatedGlobs(Text) /\ ParsesWithoutError(Text)
    /\ Cardinality(GlobErrors(Issues)) = 1

NewlinesBefore(content, idx) ==
    Cardinality({j \in 1..idx : Ch(content, j) = "\n"})

\* C4: for every phrase of the dictionary, if it occurs in the document
\* (case-insensitively, as a substring) the result holds exactly one warning
\* for it, whose line is 1 + the number of newlines before the first
\* occurrence; if it does not occur, the result holds no warning for it.
C4_VagueLines ==
    (op = "lintMdcFile" /\ ~ret.threw) =>
        \A k \in DOMAIN VAGUE_PATTERNS :
            LET pattern == VAGUE_PATTERNS[k]
                occ     == Occurrences(FoldCase(Text), pattern)
                found   == {i \in DOMAIN Issues :
                               Issues[i].message = VagueMessage(pattern)}
            IN  IF occ = {} THEN found = {}
                ELSE /\ Cardinality(found) = 1
                     /\ \A i \in found :
                          /\ Issues[i].severity = "warning"
                          /\ Issues[i].line = 1 + NewlinesBefore(Text, Min(occ))

-----------------------------------------------------------------------------
(* What the claims say about the cross-file analysis *)

\* The entries of the last result for the pair of files.
EntriesFor(a, b) ==
    {k \in DOMAIN ret.value : ret.value[k].fileA = a.file /\ ret.value[k].fileB = b.file}

Mentions(body, phrase) == Includes(FoldCase(body), phrase)

TabsAgainstSpaces(a, b) ==
    \/ Mentions(a.body, "use tabs") /\ Mentions(b.body, "use spaces")
    \/ Mentions(a.body, "use spaces") /\ Mentions(b.body, "use tabs")

NoGlobOverlap(a, b) ==
    \A x \in DOMAIN a.globs : \A y \in DOMAIN b.globs :
        /\ a.globs[x] # b.globs[y]
        /\ a.globs[x] # "**/*" /\ b.globs[y] # "**/*"
        /\ ~(ExtMatch(a.globs[x]).matched /\ ExtMatch(b.globs[y]).matched
             /\ ExtMatch(a.globs[x]).ext = ExtMatch(b.globs[y]).ext)

\* C5: two rules that both have alwaysApply, one body containing "use tabs"
\* and the other "use spaces", are reported by findConflicts as one conflict
\* whose reason mentions both patterns; the same two bodies in rules with
\* non-overlapping globs and neither alwaysApply are not reported.
C5_TabsSpacesConflict ==
    op = "findConflicts" =>
        \A i, j \in DOMAIN rules :
            (i < j /\ TabsAgainstSpaces(rules[i], rules[j])) =>
                /\ (rules[i].alwaysApply /\ rules[j].alwaysApply) =>
                     /\ Cardinality(EntriesFor(rules[i], rules[j])) = 1
                     /\ \A k \in EntriesFor(rules[i], rules[j]) :
                          /\ Includes(ret.value[k].reason, "use tabs")
                          /\ Includes(ret.value[k].reason, "use spaces")
                /\ (/\ ~rules[i].alwaysApply /\ ~rules[j].alwaysApply
                    /\ NoGlobOverlap(rules[i], rules[j])) =>
                     EntriesFor(rules[i], rules[j]) = {}

\* Two alwaysApply rules without globs, tabs against spaces, and their conflict.
C5_Witness ==
    /\ op = "findConflicts" /\ Len(rules) = 2
    /\ rules[1].alwaysApply /\ rules[2].alwaysApply
    /\ rules[1].globs = <<>> /\ rules[2].globs = <<>>
    /\ rules[1].body # rules[2].body
    /\ TabsAgainstSpaces(rules[1], rules[2])
    /\ Len(ret.value) = 1

\* The distinct trimmed lines of a body longer than 10 characters.
QualifyingLines(body) ==
    {l \in {Trim(Split(body)[i]) : i \in DOMAIN Split(body)} : Len(l) > 10}

\* C6: every pair of rules whose bodies are identical and hold a trimmed line
\* longer than 10 characters is reported by findRedundancy with overlapPct =
\* 100 and sharedLines = the number of distinct qualifying lines.
C6_IdenticalBodies ==
    op = "findRedundancy" =>
        \A i, j \in DOMAIN rules :
            (/\ i < j /\ rules[i].body = rules[j].body
             /\ QualifyingLines(rules[i].body) # {}) =>
                /\ Cardinality(EntriesFor(rules[i], rules[j])) = 1
                /\ \A k \in EntriesFor(rules[i], rules[j]) :
                     /\ ret.value[k].overlapPct = 100
                     /\ ret.value[k].sharedLines =
                            Cardinality(QualifyingLines(rules[i].body))

\* Two rules with the same body of two qualifying lines, reported.
C6_Witness ==
    /\ op = "findRedundancy" /\ Len(rules) = 2
    /\ rules[1].body = rules[2].body
    /\ Cardinality(QualifyingLines(rules[1].body)) = 2
    /\ Len(ret.value) = 1

-----------------------------------------------------------------------------
(* What the claims say about the project scan and the health score *)

MdcNames ==
    IF rulesDir.kind = "dir"
    THEN {n \in DOMAIN rulesDir.entries : EndsWith(n, ".mdc")}
    ELSE {}

CursorrulesPath == ProjectDir \o "/.cursorrules"

MdcPath(n) == ProjectDir \o "/.cursor/rules/" \o n

Discovered ==
    (IF cursorrules.exists THEN {CursorrulesPath} ELSE {})
    \cup {MdcPath(n) : n \in MdcNames}

HasSeverity(issues, severity) ==
    \E k \in DOMAIN issues : issues[k].severity = severity

\* Lint reports an error for a rule file of the project.
HasLintError ==
    \E n \in MdcNames :
        /\ rulesDir.entries[n].readable
        /\ HasSeverity(MdcIssuesOf[rulesDir.entries[n].text], "error")

\* C7: a doctor call changes nothing of the project, and returns the report
\* that the first doctor call since the project last changed returned.
C7_DoctorDeterministic ==
    [][(op' = "doctor" /\ ~ret'.threw) =>
          /\ project' = project
          /\ last.valid => ret'.value = last.report]_vars

\* A second doctor call on an unchanged rules directory of three rule files,
\* which a file system may list in two orders.
C7_Witness ==
    /\ op = "doctor" /\ ~ret.threw
    /\ last.valid /\ last.calls = 2 /\ ret.value = last.report
    /\ ~cursorrules.exists
    /\ Cardinality(MdcNames) = 3
    /\ \E m, n \in MdcNames : rulesDir.entries[m] # rulesDir.entries[n]

NoRulesMessage == "No Cursor rules found in this directory"

\* C8: a lintProject call that returns, returns one result per discovered
\* rule file, the one of .cursorrules first, then one per .mdc entry of the
\* rules directory; and exactly when no rule file is discovered, one result
\* holding only the "No Cursor rules found" warning.
C8_OneResultPerRuleFile ==
    (op = "lintProject" /\ ~ret.threw) =>
        LET results == ret.value
            none    == \E k \in DOMAIN results : \E i \in DOMAIN results[k].issues :
                           results[k].issues[i].message = NoRulesMessage
        IN  /\ none <=> Discovered = {}
            /\ Discovered = {} =>
                 /\ Len(results) = 1
                 /\ results[1].file = ProjectDir
                 /\ Len(results[1].issues) = 1
                 /\ results[1].issues[1].severity = "warning"
                 /\ results[1].issues[1].message = NoRulesMessage
            /\ Discovered # {} =>
                 /\ Len(results) = Cardinality(Discovered)
                 /\ {results[k].file : k \in DOMAIN results} = Discovered
                 /\ cursorrules.exists => results[1].file = CursorrulesPath

\* .cursorrules, two rule files and an entry that is not a rule file: three
\* results.
C8_Witness ==
    /\ op = "lintProject" /\ ~ret.threw
    /\ cursorrules.exists
    /\ Cardinality(MdcNames) = 2
    /\ "notes.txt" \in DOMAIN rulesDir.entries
    /\ Len(ret.value) = 3

\* The document omits alwaysApply and holds the phrase.
OmitsAndFollows(content) ==
    /\ HeaderOmits(content, "alwaysApply")
    /\ Includes(FoldCase(content), "follow best practices")

\* The rule file n of the project is such a document.
OmitsAndFollowsOf == [content \in RuleTexts |-> OmitsAndFollows(content)]

IsSuchDocument(n) ==
    /\ rulesDir.entries[n].readable
    /\ OmitsAndFollowsOf[rulesDir.entries[n].text]

\* C9: the result of a rule file that omits alwaysApply and contains "follow
\* best practices" holds at least two issues, an error and a warning among
\* them; and no doctor report has grade A when lint reports an error.
C9_ErrorsBelowA ==
    /\ (op = "lintProject" /\ ~ret.threw) =>
          \A n \in MdcNames : \A k \in DOMAIN ret.value :
              (/\ ret.value[k].file = MdcPath(n)
               /\ IsSuchDocument(n)) =>
                  /\ Len(ret.value[k].issues) >= 2
                  /\ HasSeverity(ret.value[k].issues, "error")
                  /\ HasSeverity(ret.value[k].issues, "warning")
    /\ (op = "doctor" /\ ~ret.threw /\ HasLintError) => ret.value.grade # "A"

\* The report of a project of one such document that earns every other
\* point: 78 of 100.
C9_Witness ==
    /\ op = "doctor" /\ ~ret.threw
    /\ ~cursorrules.exists
    /\ Cardinality(MdcNames) = 1
    /\ \A n \in MdcNames : IsSuchDocument(n)
    /\ ret.value.score = 78 /\ ret.value.grade = "B"

\* C10: in every report of doctor, maxScore > 0, 0 <= score <= maxScore,
\* percentage is 100 * score / maxScore rounded and lies in 0..100, and the
\* grade is the one of the percentage: A from 90, B from 75, C from 60, D
\* from 40, F below.
C10_GradeOfPercentage ==
    (op = "doctor" /\ ~ret.threw) =>
        LET r == ret.value
            p == r.percentage
        IN  /\ r.maxScore > 0
            /\ 0 <= r.score /\ r.score <= r.maxScore
            /\ 2 * r.maxScore * p <= 200 * r.score + r.maxScore
            /\ 200 * r.score + r.maxScore < 2 * r.maxScore * (p + 1)
            /\ p \in 0..100
            /\ r.grade = "A" <=> p >= 90
            /\ r.grade = "B" <=> (p >= 75 /\ p <= 89)
            /\ r.grade = "C" <=> (p >= 60 /\ p <= 74)
            /\ r.grade = "D" <=> (p >= 40 /\ p <= 59)
            /\ r.grade = "F" <=> p < 40

\* A report at the lowest percentage of grade A.
C10_Witness ==
    /\ op = "doctor" /\ ~ret.threw
    /\ ret.value.percentage = 90 /\ ret.value.grade = "A"

\* The issues of that severity lint finds in the project, in any listing.
LintFound(severity) ==
    LET listing == CHOOSE l \in Listings(rulesDir) : TRUE
        results == lintProject(ProjectDir, cursorrules, rulesDir, listing).value
    IN  Cardinality({pair \in (DOMAIN results) \X (1..30) :
                        /\ pair[2] \in DOMAIN results[pair[1]].issues
                        /\ results[pair[1]].issues[pair[2]].severity = severity})

\* What the six checks add to the score of a report of the project.
Earned ==
    <<RulesExist(MdcNames # {}, cursorrules.exists).score,
      NoLegacy(MdcNames # {}, cursorrules.exists).score,
      LintChecks(LintFound("error"), LintFound("warning")).score,
      TokenBudget(showStats(cursorrules, rulesDir, coverageGaps).totalTokens).score,
      Coverage(coverageGaps).score,
      AgentSkills(hasSkills).score>>

\* What check k added to the score of the report: the score less what the
\* other five checks add.
Credit(k) ==
    LET others == {j \in 1..6 : j # k}
        sum[S \in SUBSET (1..6)] ==
            IF S = {} THEN 0
            ELSE LET j == CHOOSE x \in S : TRUE IN Earned[j] + sum[S \ {j}]
    IN  ret.value.score - sum[others]

\* C11: the lint check earns 30 exactly when lint found no error and no
\* warning, 20 exactly when it found no error and at least one warning, and
\* max(0, 10 - 2 * errors) when it found an error; never less than 0, never
\* more than 30.
C11_LintCredit ==
    (op = "doctor" /\ ~ret.threw) =>
        LET e == LintFound("error")
            w == LintFound("warning")
            c == Credit(3)
        IN  /\ c = 30 <=> (e = 0 /\ w = 0)
            /\ c = 20 <=> (e = 0 /\ w >= 1)
            /\ e >= 1 => c = (IF 10 - 2 * e > 0 THEN 10 - 2 * e ELSE 0)
            /\ 0 <= c /\ c <= 30

\* A report of three rule files with two errors each.
C11_Witness ==
    /\ op = "doctor" /\ ~ret.threw
    /\ LintFound("error") = 6
    /\ Credit(3) = 0

\* C12: the legacy check earns 10 without a .cursorrules, 5 with a
\* .cursorrules next to at least one .mdc rule, 0 with a .cursorrules and
\* no .mdc rule; it always adds 10 to maxScore and one entry to checks.
C12_LegacyCredit ==
    (op = "doctor" /\ ~ret.threw) =>
        LET r == ret.value
            c == Credit(2)
        IN  /\ ~cursorrules.exists => c = 10
            /\ (cursorrules.exists /\ MdcNames # {}) => c = 5
            /\ (cursorrules.exists /\ MdcNames = {}) => c = 0
            /\ NoLegacyMax = 10
            /\ r.maxScore = RulesExistMax + NoLegacyMax + LintChecksMax
                            + TokenBudgetMax + CoverageMax + AgentSkillsMax
            /\ Cardinality({k \in DOMAIN r.checks :
                               r.checks[k].name = "No legacy .cursorrules"}) = 1

\* A report of a project with a .cursorrules and no .mdc rule.
C12_Witness ==
    /\ op = "doctor" /\ ~ret.threw
    /\ cursorrules.exists /\ MdcNames = {}
    /\ rulesDir.kind = "dir"
    /\ Credit(2) = 0

\* split('\n').length of the text.
LineCount(content) == 1 + NewlinesBefore(content, Len(content))

LengthIssuesOf(issues) ==
    {i \in DOMAIN issues : StartsWith(issues[i].message, "File is ")}

\* C13: for every linted document, more than 300 lines give a length issue
\* of severity error, otherwise more than 150 lines give a length issue of
\* severity warning, otherwise there is no length issue; and there is never
\* more than one length issue.
C13_LengthIssue ==
    (op \in {"lintMdcFile", "lintFile"} /\ ~ret.threw) =>
        LET n      == LineCount(Text)
            length == LengthIssuesOf(Issues)
        IN  /\ Cardinality(length) <= 1
            /\ n > 300 => \E i \in length : Issues[i].severity = "error"
            /\ (n > 150 /\ n <= 300) => \E i \in length : Issues[i].severity = "warning"
            /\ n <= 150 => length = {}

\* C14: a rule file that exists and cannot be read does not fail the scan:
\* lintProject returns, with one result per discovered rule file, and the
\* result of the unreadable file holds a single issue, of severity error.
C14_ScanSurvives ==
    op = "lintProject" =>
        /\ ~ret.threw
        /\ {ret.value[k].file : k \in DOMAIN ret.value} = Discovered \cup
               (IF Discovered = {} THEN {ProjectDir} ELSE {})
        /\ \A n \in MdcNames : \A k \in DOMAIN ret.value :
               (ret.value[k].file = MdcPath(n) /\ ~rulesDir.entries[n].readable) =>
                   /\ Len(ret.value[k].issues) = 1
                   /\ ret.value[k].issues[1].severity = "error"

\* The text after the header block (the whole text without one).
BodyOf(content) ==
    IF HasHeader(content) THEN SliceFrom(content, MatchFrontmatter(content).end)
    ELSE content

\* C15: a phrase of the dictionary that occurs in the header block only,
\* not in the body, gets no vague-phrase warning.
C15_BodyOnly ==
    (op = "lintMdcFile" /\ ~ret.threw) =>
        \A k \in DOMAIN VAGUE_PATTERNS :
            ~Includes(FoldCase(BodyOf(Text)), VAGUE_PATTERNS[k]) =>
                \A i \in DOMAIN Issues : Issues[i].message # VagueMessage(VAGUE_PATTERNS[k])

\* C16: a globs value that is not a comma-separated string outside brackets
\* (a bracketed list, a single pattern) gets no glob-syntax issue.
C16_OnlyCommaStrings ==
    (/\ op \in {"lintMdcFile", "lintFile"} /\ ~ret.threw
     /\ HasHeader(Text) /\ ~CommaSeparatedGlobs(Text))
        => \A i \in DOMAIN Issues : Issues[i].message \notin GlobMessages

\* C17: loadRules returns one rule for .cursorrules when it exists, besides
\* one rule per .mdc file, and no rule when neither exists.
C17_LoadsLegacy ==
    (op = "loadRules" /\ ~ret.threw /\ (cursorrules.exists => cursorrules.readable)) =>
        /\ Len(ret.value) = Cardinality(Discovered)
        /\ cursorrules.exists =>
              \E k \in DOMAIN ret.value : ret.value[k].body = cursorrules.text
        /\ \A n \in MdcNames : \E k \in DOMAIN ret.value : ret.value[k].file = n

\* C18: the report of a project without a rule document holds no check of
\* status fail, and its token-budget check has status info and adds nothing
\* to the score.
C18_EmptyProjectInfo ==
    (op = "doctor" /\ ~ret.threw /\ Discovered = {}) =>
        /\ \A k \in DOMAIN ret.value.checks : ret.value.checks[k].status # "fail"
        /\ \A k \in DOMAIN ret.value.checks :
               ret.value.checks[k].name = "Token budget" =>
                   ret.value.checks[k].status = "info"
        /\ Credit(4) = 0

\* C20: for every content whose header is missing or does not parse, the
\* content fixFrontmatter returns parses with found = true and error = null;
\* for a missing header it is a new header block followed by the content.
C20_Repairs ==
    op = "fixFrontmatter" =>
        LET before == parseFrontmatter(Text)
            after  == parseFrontmatter(ret.value)
        IN  /\ (~before.found \/ ~before.error.null) =>
                  (after.found /\ after.error.null)
            /\ ~before.found => ret.value = NewHeader \o Text

-----------------------------------------------------------------------------
(* What the claims say about the automatic fix *)

DryRunOnly == Options(TRUE, TRUE, 0)

RealRun == Options(FALSE, TRUE, 0)

\* C19: a call of autoFix(dir, {dryRun: true}) that returns leaves every
\* file of the rules directory as it was, creates and deletes none, and its
\* results.fixed and results.splits are those of a run that writes, on the
\* same directory with the same listing order.
C19_DryRun ==
    [][(op' = "autoFix" /\ arg' = DryRunOnly /\ ~ret'.threw) =>
          /\ rulesDir' = rulesDir
          /\ cursorrules' = cursorrules
          /\ \E ascending \in BOOLEAN :
                /\ ret' = autoFix(rulesDir, DryRunOnly, ascending).ret
                /\ LET real == autoFix(rulesDir, RealRun, ascending).ret
                   IN  /\ ~real.threw
                       /\ ret'.value.fixed = real.value.fixed
                       /\ ret'.value.splits = real.value.splits]_vars

-----------------------------------------------------------------------------
(* What the claims say about the license key *)

\* A key of 16 to 128 letters, digits, "-" or "_".
WellFormed(key) == Len(key) >= 16 /\ Len(key) <= 128 /\ IsKeyText(key)

\* What a step of activateLicense with key leaves in the home directory: the
\* file as it was, or the 64 hexadecimal digits of the salted digest and a
\* line end, without the text of the key.
Unwritten == license'.home = license.home /\ license'.project = license.project

WritesDigestOf(key) ==
    /\ license'.project = license.project
    /\ license'.home.exists
    /\ Len(license'.home.text) = 65
    /\ IsStoredHash(Slice(license'.home.text, 0, 64))
    /\ license'.home.text = Sha256Hex(SALT \o ":" \o Trim(key)) \o "\n"
    /\ ~Includes(license'.home.text, Trim(key))

AfterActivation ==
    (op' = "isLicensed" /\ license.activated) => ret'.value = TRUE

\* C21 as stated: an activation with a key that is not 16 to 128 characters
\* of letters, digits, "-" or "_" returns ok = false and writes nothing; one
\* with such a key writes the digest only; after an activation that returned
\* ok = true every isLicensed returns true.
C21_Original ==
    [][/\ (op' = "activateLicense" /\ ~WellFormed(arg')) =>
              (~ret'.value.ok /\ Unwritten)
       /\ (op' = "activateLicense" /\ WellFormed(arg')) =>
              (Unwritten \/ WritesDigestOf(arg'))
       /\ AfterActivation]_vars

\* C21, amended: the key is judged after its surrounding white space is
\* taken off.  An activation whose trimmed key is not 16 to 128 characters
\* of letters, digits, "-" or "_" returns ok = false and writes nothing; any
\* other returns ok = true exactly when it has written the 64 hexadecimal
\* digits of the salted digest of the trimmed key and a line end, and never
\* the key; after an activation that returned ok = true every isLicensed
\* returns true.
C21_HashOnly ==
    [][/\ (op' = "activateLicense" /\ ~WellFormed(Trim(arg'))) =>
              (~ret'.value.ok /\ Unwritten)
       /\ (op' = "activateLicense" /\ WellFormed(Trim(arg'))) =>
              IF ret'.value.ok THEN WritesDigestOf(arg') ELSE Unwritten
       /\ AfterActivation]_vars

C21_Witness ==
    /\ op = "isLicensed"
    /\ license.activated
    /\ ~LicensedBy(license.project)
    /\ license.home.text = hashKey("  ABCD-1234-efgh_5678\n") \o "\n"
    /\ ret.value = TRUE

-----------------------------------------------------------------------------
(* What the claims say about the header parser *)

HeaderBlockLines(content) == Split(MatchFrontmatter(content).block)

\* The line starts with white space and goes on with something that is no "-".
IndentedNoListItem(line) ==
    /\ Len(line) > 0 /\ Ch(line, 1) \in WhiteSpace
    /\ TrimStart(line) # "" /\ Ch(TrimStart(line), 1) # "-"

\* Some line of the block is indented, is no list item, and the line just
\* before it does not end with a colon.
BadlyIndented(lines) ==
    \E i \in 2..Len(lines) :
        IndentedNoListItem(lines[i]) /\ ~EndsWith(lines[i - 1], ":")

\* C22: for every header block, parseFrontmatter returns found = true,
\* data = null and the error "Invalid YAML indentation" if some line is
\* indented, is no list item and follows a line that does not end with a
\* colon, and error = null if no line is.
C22_Indentation ==
    (op = "parseFrontmatter" /\ HasHeader(arg)) =>
        IF BadlyIndented(HeaderBlockLines(arg))
        THEN /\ ret.value.found /\ ret.value.data.null
             /\ ret.value.error = Error("Invalid YAML indentation")
        ELSE ret.value.error.null

\* The lines of the block that hold a colon, and what such a line says:
\* the key before its first colon, the value after it, both trimmed.
ColonLines(content) ==
    SelectSeq(HeaderBlockLines(content), LAMBDA l : Includes(l, ":"))

KeyOfLine(line) == Trim(Slice(line, 0, Min(Occurrences(line, ":"))))

RawOfLine(line) == Trim(SliceFrom(line, Min(Occurrences(line, ":")) + 1))

\* The value the claim has stored for a trimmed raw text.
StoredFor(raw) ==
    CASE raw = "true"  -> Bool(TRUE)
      [] raw = "false" -> Bool(FALSE)
      [] raw \notin {"true", "false"} /\ Len(raw) >= 1
            /\ Ch(raw, 1) = "\"" /\ Ch(raw, Len(raw)) = "\""
                       -> Str(IF Len(raw) = 1 THEN "" ELSE SubSeq(raw, 2, Len(raw) - 1))
      [] OTHER         -> Str(raw)

\* C23: of a header that parses, the mapping holds exactly the keys of the
\* lines with a colon, split at the first colon and trimmed, and for each
\* key the value of its last line: a boolean for true or false, the text
\* between the quotes of a quoted value, else the trimmed text.
C23_KeyValue ==
    (op = "parseFrontmatter" /\ ret.value.found /\ ret.value.error.null) =>
        LET pairs == ColonLines(arg)
            map   == ret.value.data.map
        IN  /\ DOMAIN map = {KeyOfLine(pairs[i]) : i \in DOMAIN pairs}
            /\ \A i \in DOMAIN pairs :
                  (\A j \in DOMAIN pairs : j > i => KeyOfLine(pairs[j]) # KeyOfLine(pairs[i]))
                      => map[KeyOfLine(pairs[i])] = StoredFor(RawOfLine(pairs[i]))

-----------------------------------------------------------------------------
(* What the claims say about overlap, order and scope *)

SharedLines(a, b) == Cardinality(QualifyingLines(a.body) \cap QualifyingLines(b.body))

SmallerSet(a, b) ==
    Min({Cardinality(QualifyingLines(a.body)), Cardinality(QualifyingLines(b.body))})

\* shared / min(|A|, |B|) > 0.6, both sets holding a line.
OverSixty(a, b) ==
    /\ QualifyingLines(a.body) # {} /\ QualifyingLines(b.body) # {}
    /\ 5 * SharedLines(a, b) > 3 * SmallerSet(a, b)

\* pct = round(100 * shared / smaller), a half rounded up.
IsRounded(pct, shared, smaller) ==
    /\ 2 * pct * smaller - smaller <= 200 * shared
    /\ 200 * shared < 2 * pct * smaller + smaller

Reorderings(rs) ==
    {[i \in DOMAIN rs |-> rs[p[i]]] :
        p \in {q \in [DOMAIN rs -> DOMAIN rs] :
                  \A i, j \in DOMAIN rs : i # j => q[i] # q[j]}}

\* What an entry gives beside the two files.
Evidence(entry) ==
    IF "reason" \in DOMAIN entry THEN <<entry.reason>>
    ELSE <<entry.overlapPct, entry.sharedLines>>

UnorderedPairs(result) ==
    {[files |-> {result[k].fileA, result[k].fileB}, evidence |-> Evidence(result[k])] :
        k \in DOMAIN result}

Reported(rs) == IF op = "findConflicts" THEN findConflicts(rs) ELSE findRedundancy(rs)

\* C25: for every rule list and every reordering of it, findConflicts and
\* findRedundancy report the same set of unordered pairs {fileA, fileB} with
\* the same evidence (reason, overlapPct, sharedLines); no entry pairs a rule
\* with itself and no unordered pair has two entries.
C25_Symmetric ==
    op \in {"findConflicts", "findRedundancy"} =>
        /\ \A rs \in Reorderings(rules) :
              UnorderedPairs(Reported(rs)) = UnorderedPairs(ret.value)
        /\ \A k \in DOMAIN ret.value : ret.value[k].fileA # ret.value[k].fileB
        /\ \A k, m \in DOMAIN ret.value :
              k # m => {ret.value[k].fileA, ret.value[k].fileB}
                          # {ret.value[m].fileA, ret.value[m].fileB}

\* Two rules of three and of five lines, three of them shared: reported in
\* this order, and in the other order with the two files exchanged.
C25_Witness ==
    /\ op = "findRedundancy" /\ Len(rules) = 2
    /\ Cardinality(QualifyingLines(rules[1].body)) = 5
    /\ Cardinality(QualifyingLines(rules[2].body)) = 3
    /\ Len(ret.value) = 1 /\ ret.value[1].fileA = rules[1].file
    /\ Len(findRedundancy(Reverse(rules))) = 1
    /\ findRedundancy(Reverse(rules))[1].fileA = rules[2].file

\* The extensions ext for which a glob ends in "*." ext, ext a word.
StarExts(g) ==
    {SliceFrom(g, at + 2) :
        at \in {i \in 0..(Len(g) - 3) :
                  /\ Slice(g, i, i + 2) = "*."
                  /\ \A k \in (i + 3)..Len(g) : Ch(g, k) \in WordChars}}

\* Textually identical, either the universal wildcard, or the same extension.
Overlap(x, y) ==
    \/ x = y
    \/ x = "**/*" \/ y = "**/*"
    \/ StarExts(x) \cap StarExts(y) # {}

ScopesMeet(a, b) ==
    \/ a.alwaysApply \/ b.alwaysApply
    \/ \E x \in DOMAIN a.globs : \E y \in DOMAIN b.globs : Overlap(a.globs[x], b.globs[y])

Contradict(a, b) == findContradictions(ToLowerCase(a.body), ToLowerCase(b.body)) # <<>>

AllGlobs == {rules[i].globs[x] : <<i, x>> \in {p \in (DOMAIN rules) \X (1..2) : p[2] <= Len(rules[p[1]].globs)}}

\* C26: findConflicts reports a pair exactly when its bodies contradict and
\* one of the two has alwaysApply or some glob of one overlaps some glob of the
\* other; two globs overlap exactly when they are the same text, either is
\* "**/*", or both end in the same *.ext; globsOverlap is symmetric; a pair
\* without globs and without alwaysApply is not reported.
C26_Examined ==
    op = "findConflicts" =>
        /\ \A i, j \in DOMAIN rules :
              i < j =>
                /\ EntriesFor(rules[i], rules[j]) # {}
                      <=> (ScopesMeet(rules[i], rules[j]) /\ Contradict(rules[i], rules[j]))
                /\ (/\ rules[i].globs = <<>> /\ rules[j].globs = <<>>
                    /\ ~rules[i].alwaysApply /\ ~rules[j].alwaysApply)
                      => EntriesFor(rules[i], rules[j]) = {}
        /\ \A x, y \in AllGlobs :
              /\ globsOverlap(x, y) <=> Overlap(x, y)
              /\ globsOverlap(x, y) <=> globsOverlap(y, x)

\* Tabs against spaces under "lib/*.ts" and under "*.tsx", "*.ts": reported
\* for the shared extension alone.
C26_Witness ==
    /\ op = "findConflicts" /\ Len(rules) = 2
    /\ rules[1].globs = <<"lib/*.ts">> /\ rules[2].globs = <<"*.tsx", "*.ts">>
    /\ ~rules[1].alwaysApply /\ ~rules[2].alwaysApply
    /\ Len(ret.value) = 1

-----------------------------------------------------------------------------
(* What the claims say about the scope of a loaded rule *)

\* A quote at the start and a quote at the end.
InQuotes(g) == Len(g) >= 2 /\ Ch(g, 1) \in Quotes /\ Ch(g, Len(g)) \in Quotes

\* The header value of a key, where the header gave a mapping.
HeaderValue(content, key) ==
    LET fm == parseFrontmatter(content)
    IN  IF fm.found /\ ~fm.data.null THEN Get(fm.data.map, key) ELSE Undefined

\* No globs key, or a globs key with nothing behind the colon.
NoGlobsValue(content) ==
    \/ HeaderValue(content, "globs") = Undefined
    \/ HeaderValue(content, "globs") = Str("")

\* C27: the rule loaded from a document has alwaysApply exactly when the
\* header value of alwaysApply is the boolean true; no element of its globs
\* is the empty string or stands between quotes; and a header with a missing
\* or an empty globs value gives no globs.
C27_Scope ==
    (op = "loadRules" /\ ~ret.threw) =>
        \A k \in DOMAIN ret.value :
            LET rule == ret.value[k]
            IN  /\ rule.alwaysApply <=> HeaderValue(Text, "alwaysApply") = Bool(TRUE)
                /\ \A x \in DOMAIN rule.globs :
                      rule.globs[x] # "" /\ ~InQuotes(rule.globs[x])
                /\ NoGlobsValue(Text) => rule.globs = <<>>

-----------------------------------------------------------------------------
(* What the claims say about rules that give the same directive *)

\* C28: findContradictions(a, a) is empty for every body a, so two rules of
\* the same body are not reported by findConflicts; and two bodies that each
\* give only a prohibition of the table, such as "never use any" and "avoid
\* any", are not reported.
C28_SameDirective ==
    op = "findConflicts" =>
        /\ \A i \in DOMAIN rules :
              findContradictions(rules[i].body, rules[i].body) = <<>>
        /\ \A i, j \in DOMAIN rules :
              i < j =>
                /\ rules[i].body = rules[j].body => EntriesFor(rules[i], rules[j]) = {}
                /\ (rules[i].body \in ProhibitingBodies /\ rules[j].body \in ProhibitingBodies)
                      => EntriesFor(rules[i], rules[j]) = {}

-----------------------------------------------------------------------------
(* What the claims say about the parts of a split *)

\* The sections of a content, or its paragraphs when it has one section at
\* most, and what joins them in a part.
Units(content) ==
    LET sections == NonBlank(SplitSections(StripHeader(content)))
    IN  IF Len(sections) <= 1
        THEN [of |-> NonBlank(SplitParagraphs(StripHeader(content))), joint |-> "\n\n"]
        ELSE [of |-> sections, joint |-> "\n"]

\* The ends of n non-empty consecutive groups of m units.
Cuts(n, m) ==
    {c \in [0..n -> 0..m] :
        /\ c[0] = 0 /\ c[n] = m
        /\ \A i \in 1..n : c[i - 1] < c[i]}

\* C30: splitOversizedFile returns null exactly when ceil(length / 4) <=
\* maxTokens; otherwise the parts are non-empty consecutive groups, in order,
\* of the sections of the body (of its paragraphs when there is one section
\* at most), every unit in exactly one part, no part with an empty body, the
\* suffixes -part1, -part2, ... in order.
C30_Partition ==
    rulesDir.kind = "dir" =>
        \A name \in DOMAIN rulesDir.entries :
            (IsMdc(name) /\ rulesDir.entries[name].readable) =>
                LET content == rulesDir.entries[name].text
                    split   == splitOversizedFile(content, DefaultMaxTokens)
                    units   == Units(content)
                IN  /\ ~split.split <=> Len(content) <= 4 * DefaultMaxTokens
                    /\ split.split =>
                          /\ \A i \in DOMAIN split.parts :
                                /\ split.parts[i].suffix = "-part" \o <<"1", "2", "3", "4">>[i]
                                /\ split.parts[i].body # ""
                          /\ \E c \in Cuts(Len(split.parts), Len(units.of)) :
                                \A i \in DOMAIN split.parts :
                                    split.parts[i].body
                                        = JoinWith(SubSeq(units.of, c[i - 1] + 1, c[i]),
                                                   units.joint)

-----------------------------------------------------------------------------
(* What the claims say about a second automatic fix *)

\* The state after a run that wrote, with the default of splitting.
AfterRealRun == op = "autoFix" /\ ~ret.threw /\ ~arg.dryRun /\ arg.split

\* C29: after an autoFix that is no dry run has completed, an autoFix on the
\* directory it left reports no fixed file and no split and changes no file,
\* and no .mdc file of the directory is above maxTokens estimated tokens.
C29_FixedPoint ==
    AfterRealRun =>
        /\ \A ascending \in BOOLEAN :
              LET again == autoFix(rulesDir, arg, ascending)
              IN  /\ ~again.ret.threw =>
                        /\ again.ret.value.fixed = <<>>
                        /\ again.ret.value.splits = <<>>
                  /\ again.rulesDir = rulesDir
        /\ rulesDir.kind = "dir" =>
              \A name \in DOMAIN rulesDir.entries :
                  (IsMdc(name) /\ rulesDir.entries[name].readable) =>
                      Tokens(rulesDir.entries[name].text) <= MaxTokensOf(arg)

=============================================================================
